---- MODULE Spec2Model ----
(***************************************************************************)
(* A model of the tellstore log substrate (src/util/Log.cpp): LogEntry,    *)
(* LogPage, OrderedLogImpl, UnorderedLogImpl over a PageManager, and of    *)
(* the row-store page garbage collector                                    *)
(* (src/deltamain/rowstore/RowStorePage.cpp).                              *)
(*                                                                         *)
(* Every atomic memory access of the log code is one step of the thread    *)
(* that performs it; a thread's local variables live in loc[t] and its     *)
(* position in the code in pc[t].                                          *)
(***************************************************************************)
EXTENDS Integers, Sequences, FiniteSets, TLC

\* ------------------------------------------------------------------ bounds
NumPages == 3
\* The pages of the PageManager under an UnorderedLog.
NumUnorderedPages == 4
NumThreads == 2
\* The work a run may start, in 16-byte blocks: an append costs the blocks of
\* its entry, a truncation one block.
MaxWork == 6
\* The same budget for a run of the UnorderedLog.
MaxUnorderedWork == 8
\* The budget for a run of the UnorderedLog with erase.
MaxEraseWork == 7
\* Scaled-down page body (the code's PAGE_SIZE - LOG_HEADER_SIZE), in bytes.
MAX_ENTRY_SIZE == 64
\* The garbage collector: keys, version numbers, records of the input page,
\* fill pages the PageManager can supply, and the scaled-down page size.
NumKeys == 3
NumVersions == 2
MaxRecords == 2
NumFillPages == 3
TELL_PAGE_SIZE == 40

\* --------------------------------------------------------------- constants
LOG_ENTRY_SIZE == 16
\* The header every record carries in front of its versions.
RECORD_HEADER == 8
NULL == 0

Pages == 1..NumPages
UnorderedPages == 1..NumUnorderedPages
Threads == 1..NumThreads
\* Payload sizes a caller appends: 8 bytes gives a 32 byte entry, 24 bytes a
\* 48 byte entry.
PayloadSizes == {8, 24}
\* The 16-byte aligned positions of a page body at which an entry header fits.
Slots == {o \in 0..(MAX_ENTRY_SIZE - LOG_ENTRY_SIZE) : o % 16 = 0}

\* ----------------------------------------------------- LogEntry primitives
entrySizeFromSize(size) ==
    LET s == size + LOG_ENTRY_SIZE
    IN s + (IF s % 16 # 0 THEN 16 - (s % 16) ELSE 0)

\* (size, sealed) of an entry's size word: the word is (size << 1) | acquired.
sizeAndSealed(word) == [size |-> word \div 2, sealed |-> (word % 2 = 0)]

\* (offset, sealed) of a page's offset word: the word is (offset << 1) | unsealed.
offsetAndSealed(word) == [offset |-> word \div 2, sealed |-> (word % 2 = 0)]

\* fetch_and(~1) on a size or offset word.
SealWord(word) == word - (word % 2)

\* LogEntry::tryAcquire on an entry whose size word is `word`: the CAS from 0
\* to (size << 1) | 1; res = 0 on success, else the occupying entry's size.
tryAcquireLosesCheck(word, size) ==
    [word |-> (size * 2) + 1, res |-> 0]

tryAcquire(word, size) ==
    IF word # 0
        THEN [word |-> word, res |-> entrySizeFromSize(word \div 2)]
        ELSE [word |-> (size * 2) + 1, res |-> 0]

NoEntry == [page |-> NULL, pos |-> 0]
NoPos == [page |-> NULL, offset |-> 0]
\* UnorderedLogImpl::LogHead: the (writeHead, appendHead) pair.
NoHead == [writeHead |-> NULL, appendHead |-> NULL]

VARIABLES
    \* PageManager: the LIFO stack of free pages
    mPages,
    \* LogPage memory, per page: the offset word, the next pointer, and per
    \* slot the entry's size word and type
    pOffset, pNext, eSize, eType,
    \* OrderedLogImpl
    mHead, mSealedHead, mTail,
    \* the reclamation primitive: closures waiting for their grace period
    deferred,
    \* threads: position in the code, local variables; the value the most
    \* recent call returned to its caller
    pc, loc, ret,
    \* number of client threads of this run
    nclients,
    \* history: appends started, work started (in blocks), entries returned by
    \* append and not yet handed to seal, the (type, size) of the entries in
    \* the order append returned them, types in the order entry->seal()
    \* completed
    nAppends, work, held, appendOrder, sealOrder,
    \* UnorderedLogImpl: the head pair, the tail, the page counter; history:
    \* the pages of the sublist appendPage has spliced in most recently
    uHead, uTail, uPages, uSpliced,
    \* RowStorePage and its collaborators during garbage collection
    gc

memvars == <<pOffset, pNext, eSize, eType>>
ologvars == <<mHead, mSealedHead, mTail>>
ulogvars == <<uHead, uTail, uPages, uSpliced>>
histvars == <<nAppends, work, held, appendOrder, sealOrder>>
vars == <<mPages, pOffset, pNext, eSize, eType, mHead, mSealedHead, mTail,
          deferred, pc, loc, ret, nclients, nAppends, work, held,
          appendOrder, sealOrder, uHead, uTail, uPages, uSpliced,
          gc>>


\* ------------------------------------------------------------ thread state
IdleLoc ==
    [log |-> "none", head |-> NULL, offset |-> 0, position |-> 0, size |-> 0,
     type |-> 0, oldHead |-> NULL, next |-> NULL, nPage |-> NULL,
     oldSH |-> NoPos, sh |-> NoPos, vsize |-> 0, vsealed |-> FALSE,
     cur |-> NoEntry, from |-> "none", target |-> NoEntry,
     told |-> NoPos, tnew |-> NoPos,
     headAppend |-> NULL, uOldHead |-> NoHead, writeHead |-> NULL,
     nHead |-> NoHead, freeHead |-> FALSE, begin |-> NULL, end |-> NULL]

NoRet == "none"

WorkOfAppend(size) == entrySizeFromSize(size) \div 16
WorkOfTruncate == LOG_ENTRY_SIZE \div 16

ZeroSlots == [o \in Slots |-> 0]

\* The reclamation primitive: a thread leaving its operation drops out of the
\* grace set of every waiting closure.
Quiesce(t, closures) ==
    {[c EXCEPT !.grace = @ \ {t}] : c \in closures}

\* Return from the public operation: the thread becomes idle with result r.
ReturnWith(t, r, closures) ==
    /\ pc' = [pc EXCEPT ![t] = "idle"]
    /\ loc' = [loc EXCEPT ![t] = IdleLoc]
    /\ ret' = r
    /\ deferred' = Quiesce(t, closures)

Return(t, r) == ReturnWith(t, r, deferred)

Goto(t, label, l) ==
    /\ pc' = [pc EXCEPT ![t] = label]
    /\ loc' = [loc EXCEPT ![t] = l]

\* -------------------------------------------------------------- PageManager
\* PageManager::alloc pops the free stack (null when it is empty).
PageManagerAlloc == IF mPages = <<>> THEN NULL ELSE Head(mPages)

\* PageManager::free pushes the page; pages on the stack are zero-filled.
PageManagerFree(stack, p) == <<p>> \o stack

\* BaseLogImpl::acquirePage: a fresh LogPage is unsealed, empty, unlinked.
AcquirePageMem(p) ==
    /\ mPages' = Tail(mPages)
    /\ pOffset' = [pOffset EXCEPT ![p] = 1]
    /\ pNext' = [pNext EXCEPT ![p] = NULL]

\* ------------------------------------------------ Log<Impl>::append, LogPage
\* The label at which a log's createPage starts.
CreatePageLabel(l) == IF l.log = "ordered" THEN "c_next" ELSE "uc_seal"

\* append returns the entry to its caller.
AppendReturns(t, l, e) ==
    /\ Return(t, "entry")
    /\ held' = held \cup {e}
    /\ appendOrder' = Append(appendOrder, [type |-> l.type, size |-> l.size])

\* append returns nullptr to its caller.
AppendFails(t) ==
    /\ Return(t, "nullptr")
    /\ UNCHANGED <<held, appendOrder>>

\* Log<OrderedLogImpl>::append and the load of mHead in
\* OrderedLogImpl::appendEntry. Every append is tagged with a fresh type.
OrderedAppendBegin(t, size) ==
    /\ pc[t] = "idle"
    /\ t <= nclients
    /\ work + WorkOfAppend(size) <= MaxWork
    /\ work' = work + WorkOfAppend(size)
    /\ nAppends' = nAppends + 1
    /\ IF entrySizeFromSize(size) > MAX_ENTRY_SIZE
          THEN AppendFails(t)
          ELSE /\ Goto(t, "p_load", [loc[t] EXCEPT !.log = "ordered",
                                       !.head = mHead, !.size = size,
                                       !.type = nAppends + 1])
               /\ UNCHANGED <<ret, deferred, held, appendOrder>>
    /\ UNCHANGED <<mPages, memvars, ologvars, nclients, sealOrder, ulogvars,
                   gc>>

\* LogPage::appendEntry: load the offset word; a sealed page takes no entry.
LogPageLoad(t) ==
    /\ pc[t] = "p_load"
    /\ LET l == loc[t]
           offset == pOffset[l.head]
       IN IF offset % 2 = 0
             THEN Goto(t, CreatePageLabel(l), l)
             ELSE Goto(t, "p_acq", [l EXCEPT !.offset = offset,
                                              !.position = offset \div 2])
    /\ UNCHANGED <<mPages, memvars, ologvars, deferred, ret, nclients,
                   histvars, ulogvars, gc>>

\* LogPage::appendEntry: one round of the acquire loop. The space check, then
\* LogEntry::tryAcquire (the CAS on the size word and the store of the type).
LogPageAcquire(t) ==
    /\ pc[t] = "p_acq"
    /\ LET l == loc[t]
           endPosition == l.position + entrySizeFromSize(l.size)
       IN IF endPosition > MAX_ENTRY_SIZE
             THEN /\ Goto(t, CreatePageLabel(l), l)
                  /\ UNCHANGED <<eSize, eType>>
             ELSE LET acq == tryAcquire(eSize[l.head][l.position], l.size)
                  IN IF acq.res # 0
                        THEN /\ Goto(t, "p_acq",
                                     [l EXCEPT !.position = @ + acq.res])
                             /\ UNCHANGED <<eSize, eType>>
                        ELSE /\ eSize' = [eSize EXCEPT
                                            ![l.head][l.position] = acq.word]
                             /\ eType' = [eType EXCEPT
                                            ![l.head][l.position] = l.type]
                             /\ Goto(t, "p_cas", l)
    /\ UNCHANGED <<mPages, pOffset, pNext, ologvars, deferred, ret, nclients,
                   histvars, ulogvars, gc>>

\* The publishing loop with a plain store in place of the CAS of line 90.
LogPagePublishStores(t) ==
    /\ pc[t] = "p_cas"
    /\ LET l == loc[t]
           endPosition == l.position + entrySizeFromSize(l.size)
       IN /\ pOffset' = [pOffset EXCEPT ![l.head] = (endPosition * 2) + 1]
          /\ AppendReturns(t, l, [page |-> l.head, pos |-> l.position])
    /\ UNCHANGED <<mPages, pNext, eSize, eType, ologvars, nclients, nAppends,
                   work, sealOrder, ulogvars, gc>>

\* The publishing loop without the check of lines 94-102 for a sealed page: a
\* failed CAS on a sealed page returns the entry all the same.
LogPagePublishIgnoresSeal(t) ==
    /\ pc[t] = "p_cas"
    /\ LET l == loc[t]
           endPosition == l.position + entrySizeFromSize(l.size)
           nOffset == (endPosition * 2) + 1
           entry == [page |-> l.head, pos |-> l.position]
           offset == pOffset[l.head]
       IN IF offset = l.offset
             THEN /\ pOffset' = [pOffset EXCEPT ![l.head] = nOffset]
                  /\ AppendReturns(t, l, entry)
             ELSE /\ UNCHANGED pOffset
                  /\ IF offset % 2 = 1 /\ offset < nOffset
                        THEN /\ Goto(t, "p_cas", [l EXCEPT !.offset = offset])
                             /\ UNCHANGED <<ret, deferred, held, appendOrder>>
                        ELSE AppendReturns(t, l, entry)
    /\ UNCHANGED <<mPages, pNext, eSize, eType, ologvars, nclients, nAppends,
                   work, sealOrder, ulogvars, gc>>

\* LogPage::appendEntry: one round of the loop that publishes the new offset.
LogPagePublish(t) ==
    /\ pc[t] = "p_cas"
    /\ LET l == loc[t]
           endPosition == l.position + entrySizeFromSize(l.size)
           nOffset == (endPosition * 2) + 1
           entry == [page |-> l.head, pos |-> l.position]
           offset == pOffset[l.head]
       IN IF offset = l.offset
             THEN /\ pOffset' = [pOffset EXCEPT ![l.head] = nOffset]
                  /\ AppendReturns(t, l, entry)
             ELSE /\ UNCHANGED pOffset
                  /\ IF offset % 2 = 0
                        THEN IF (offset \div 2) >= endPosition
                                THEN AppendReturns(t, l, entry)
                                ELSE /\ Goto(t, CreatePageLabel(l), l)
                                     /\ UNCHANGED <<ret, deferred, held,
                                                    appendOrder>>
                        ELSE IF offset < nOffset
                                THEN /\ Goto(t, "p_cas",
                                             [l EXCEPT !.offset = offset])
                                     /\ UNCHANGED <<ret, deferred, held,
                                                    appendOrder>>
                                ELSE AppendReturns(t, l, entry)
    /\ UNCHANGED <<mPages, pNext, eSize, eType, ologvars, nclients, nAppends,
                   work, sealOrder, ulogvars, gc>>

\* ------------------------------------------------ OrderedLogImpl::createPage
\* createPage returns `page` to the loop of OrderedLogImpl::appendEntry, which
\* appends to it (or gives up when it is null).
CreatePageReturns(t, l, page) ==
    Goto(t, "p_load", [IdleLoc EXCEPT !.log = l.log, !.head = page,
                                      !.size = l.size, !.type = l.type])

\* Line 307: load the old head's next pointer.
CreatePageNext(t) ==
    /\ pc[t] = "c_next"
    /\ LET l == loc[t]
           next == pNext[l.head]
       IN IF next # NULL
             THEN Goto(t, "c_head", [l EXCEPT !.oldHead = l.head, !.next = next])
             ELSE Goto(t, "c_seal", [l EXCEPT !.oldHead = l.head, !.next = next])
    /\ UNCHANGED <<mPages, memvars, ologvars, deferred, ret, nclients,
                   histvars, ulogvars, gc>>

\* Lines 311-314: the next page exists already, move mHead to it.
CreatePageAdvanceHead(t) ==
    /\ pc[t] = "c_head"
    /\ LET l == loc[t]
       IN IF mHead = l.oldHead
             THEN /\ mHead' = l.next
                  /\ CreatePageReturns(t, l, l.next)
             ELSE /\ UNCHANGED mHead
                  /\ CreatePageReturns(t, l, mHead)
    /\ UNCHANGED <<mPages, memvars, mSealedHead, mTail, deferred, ret,
                   nclients, histvars, ulogvars, gc>>

\* Line 318: seal the old head.
CreatePageSeal(t) ==
    /\ pc[t] = "c_seal"
    /\ pOffset' = [pOffset EXCEPT ![loc[t].oldHead] = SealWord(@)]
    /\ Goto(t, "c_acq", loc[t])
    /\ UNCHANGED <<mPages, pNext, eSize, eType, ologvars, deferred, ret,
                   nclients, histvars, ulogvars, gc>>

\* Lines 321-325: acquire a page; without one createPage returns null and
\* append gives up.
CreatePageAcquire(t) ==
    /\ pc[t] = "c_acq"
    /\ LET nPage == PageManagerAlloc
       IN IF nPage = NULL
             THEN /\ AppendFails(t)
                  /\ UNCHANGED <<mPages, pOffset, pNext>>
             ELSE /\ AcquirePageMem(nPage)
                  /\ Goto(t, "c_link", [loc[t] EXCEPT !.nPage = nPage])
                  /\ UNCHANGED <<ret, deferred, held, appendOrder>>
    /\ UNCHANGED <<eSize, eType, ologvars, nclients, nAppends, work,
                   sealOrder, ulogvars, gc>>

\* BaseLogImpl::freeEmptyPageNow: clear the header, give the page back.
FreeEmptyPageNow(page) ==
    /\ pOffset' = [pOffset EXCEPT ![page] = 0]
    /\ pNext' = [pNext EXCEPT ![page] = NULL]
    /\ mPages' = PageManagerFree(mPages, page)

\* Lines 329-332 when the lost CAS frees `next`, the page of the winner, in
\* place of nPage.
CreatePageLinkFreesNext(t) ==
    /\ pc[t] = "c_link"
    /\ LET l == loc[t]
       IN IF pNext[l.oldHead] = l.next
             THEN /\ pNext' = [pNext EXCEPT ![l.oldHead] = l.nPage]
                  /\ Goto(t, "c_sethead", l)
                  /\ UNCHANGED <<mPages, pOffset>>
             ELSE /\ FreeEmptyPageNow(pNext[l.oldHead])
                  /\ CreatePageReturns(t, l, pNext[l.oldHead])
    /\ UNCHANGED <<eSize, eType, ologvars, deferred, ret, nclients, histvars,
                   ulogvars, gc>>

\* Lines 329-332: CAS the old head's next pointer from null to the new page.
CreatePageLink(t) ==
    /\ pc[t] = "c_link"
    /\ LET l == loc[t]
       IN IF pNext[l.oldHead] = l.next
             THEN /\ pNext' = [pNext EXCEPT ![l.oldHead] = l.nPage]
                  /\ Goto(t, "c_sethead", l)
                  /\ UNCHANGED <<mPages, pOffset>>
             ELSE /\ FreeEmptyPageNow(l.nPage)
                  /\ CreatePageReturns(t, l, pNext[l.oldHead])
    /\ UNCHANGED <<eSize, eType, ologvars, deferred, ret, nclients, histvars,
                   ulogvars, gc>>

\* Lines 336-337: CAS mHead from the old head to the new page, result ignored.
CreatePageSetHead(t) ==
    /\ pc[t] = "c_sethead"
    /\ LET l == loc[t]
       IN mHead' = IF mHead = l.oldHead THEN l.nPage ELSE mHead
    /\ Goto(t, "c_sh", loc[t])
    /\ UNCHANGED <<mPages, memvars, mSealedHead, mTail, deferred, ret,
                   nclients, histvars, ulogvars, gc>>

\* createPage without lines 340-343.
CreatePageSealedHeadSkipped(t) ==
    /\ pc[t] = "c_sh"
    /\ CreatePageReturns(t, loc[t], loc[t].nPage)
    /\ UNCHANGED <<mPages, memvars, ologvars, deferred, ret, nclients,
                   histvars, ulogvars, gc>>

\* Lines 340-345: advance the sealed head if it rests at the end of the old
\* head (whose offset word is final, the page being sealed).
CreatePageSealedHead(t) ==
    /\ pc[t] = "c_sh"
    /\ LET l == loc[t]
           sealedHead == mSealedHead
       IN IF /\ sealedHead.page = l.oldHead
             /\ sealedHead.offset = offsetAndSealed(pOffset[l.oldHead]).offset
             THEN Goto(t, "v_init", [l EXCEPT !.oldSH = sealedHead,
                                              !.from = "createPage"])
             ELSE CreatePageReturns(t, l, l.nPage)
    /\ UNCHANGED <<mPages, memvars, ologvars, deferred, ret, nclients,
                   histvars, ulogvars, gc>>

\* ------------------------------------------ OrderedLogImpl::advanceSealedHead
ReadEntry(e) == sizeAndSealed(eSize[e.page][e.pos])

HasEntrySpace(offset) == offset <= MAX_ENTRY_SIZE - LOG_ENTRY_SIZE

EntryAt(pos) == [page |-> pos.page, pos |-> pos.offset]

\* advanceSealedHead returns: to seal's caller, or into createPage, which
\* returns the new page.
AdvanceReturns(t, l) ==
    IF l.from = "seal"
        THEN Return(t, "sealed")
        ELSE /\ CreatePageReturns(t, l, l.nPage)
             /\ UNCHANGED <<ret, deferred>>

\* The inner loop run without looking at the sealed flag it read.
AfterReadIgnoresSealed(t, l, r) ==
    Goto(t, "v_loop", [l EXCEPT !.vsize = r.size, !.vsealed = TRUE])

\* The inner loop `while (sealed)` runs again, or is left for the CAS.
AfterRead(t, l, r) ==
    Goto(t, IF r.sealed THEN "v_loop" ELSE "v_pub",
         [l EXCEPT !.vsize = r.size, !.vsealed = r.sealed])

\* Line 449: return unless the entry read after the publish is sealed.
AfterPostRead(t, l, r) ==
    IF r.sealed
        THEN /\ Goto(t, "v_loop", [l EXCEPT !.vsize = r.size,
                                           !.vsealed = r.sealed])
             /\ UNCHANGED <<ret, deferred>>
        ELSE AdvanceReturns(t, l)

\* Lines 349-362: read the entry at the old sealed head.
AdvanceInit(t) ==
    /\ pc[t] = "v_init"
    /\ LET l == [loc[t] EXCEPT !.sh = loc[t].oldSH]
       IN IF HasEntrySpace(l.sh.offset)
             THEN AfterRead(t, [l EXCEPT !.cur = EntryAt(l.sh)],
                            ReadEntry(EntryAt(l.sh)))
             ELSE AfterRead(t, [l EXCEPT !.cur = NoEntry],
                            [size |-> 0, sealed |-> TRUE])
    /\ UNCHANGED <<mPages, memvars, ologvars, deferred, ret, nclients,
                   histvars, ulogvars, gc>>

\* Lines 365-403: one round of the inner loop, up to its next read of shared
\* memory: step over a sealed entry, or look at the page of a free one.
AdvanceLoop(t) ==
    /\ pc[t] = "v_loop"
    /\ LET l == loc[t]
       IN IF l.vsize = 0
             THEN LET po == offsetAndSealed(pOffset[l.sh.page])
                  IN IF ~po.sealed
                        THEN Goto(t, "v_pub", l)
                        ELSE IF po.offset > l.sh.offset
                                THEN Goto(t, "v_reread", l)
                                ELSE Goto(t, "v_next", l)
             ELSE LET offset == l.sh.offset + entrySizeFromSize(l.vsize)
                      m == [l EXCEPT !.sh.offset = offset]
                  IN IF HasEntrySpace(offset)
                        THEN AfterRead(t, [m EXCEPT !.cur = EntryAt(m.sh)],
                                       ReadEntry(EntryAt(m.sh)))
                        ELSE Goto(t, "v_loop", [m EXCEPT !.vsize = 0])
    /\ UNCHANGED <<mPages, memvars, ologvars, deferred, ret, nclients,
                   histvars, ulogvars, gc>>

\* Line 378: the page holds an entry at the sealed head after all, read it.
AdvanceReread(t) ==
    /\ pc[t] = "v_reread"
    /\ AfterRead(t, loc[t], ReadEntry(loc[t].cur))
    /\ UNCHANGED <<mPages, memvars, ologvars, deferred, ret, nclients,
                   histvars, ulogvars, gc>>

\* Lines 381-388: the page is sealed and used up, load its next pointer.
AdvanceNext(t) ==
    /\ pc[t] = "v_next"
    /\ LET l == loc[t]
           next == pNext[l.sh.page]
       IN IF next = NULL
             THEN Goto(t, "v_pub", l)
             ELSE Goto(t, "v_nextread",
                       [l EXCEPT !.sh = [page |-> next, offset |-> 0],
                                 !.cur = [page |-> next, pos |-> 0]])
    /\ UNCHANGED <<mPages, memvars, ologvars, deferred, ret, nclients,
                   histvars, ulogvars, gc>>

\* Lines 389-390: read the first entry of the next page.
AdvanceNextRead(t) ==
    /\ pc[t] = "v_nextread"
    /\ AfterRead(t, loc[t], ReadEntry(loc[t].cur))
    /\ UNCHANGED <<mPages, memvars, ologvars, deferred, ret, nclients,
                   histvars, ulogvars, gc>>

\* The CAS of line 407 on mSealedHead.
PublishSealedHeadBlind(current, expected, new) == new

PublishSealedHead(current, expected, new) ==
    IF current = expected THEN new ELSE current

\* Lines 407-410: publish the new sealed head; a failed CAS ends the call.
AdvancePublish(t) ==
    /\ pc[t] = "v_pub"
    /\ LET l == loc[t]
       IN /\ mSealedHead' = PublishSealedHead(mSealedHead, l.oldSH, l.sh)
          /\ IF mSealedHead = l.oldSH
                THEN /\ Goto(t, "v_post", [l EXCEPT !.oldSH = l.sh])
                     /\ UNCHANGED <<ret, deferred>>
                ELSE AdvanceReturns(t, l)
    /\ UNCHANGED <<mPages, memvars, mHead, mTail, nclients, histvars,
                   ulogvars, gc>>

\* Lines 414-422 and 449: read the entry at the published sealed head again.
AdvancePost(t) ==
    /\ pc[t] = "v_post"
    /\ LET l == loc[t]
           r == IF HasEntrySpace(l.sh.offset)
                   THEN ReadEntry(l.cur)
                   ELSE [size |-> 0, sealed |-> TRUE]
       IN IF r.size = 0
             THEN /\ Goto(t, "v_postpage", [l EXCEPT !.vsize = r.size,
                                                     !.vsealed = r.sealed])
                  /\ UNCHANGED <<ret, deferred>>
             ELSE AfterPostRead(t, l, r)
    /\ UNCHANGED <<mPages, memvars, ologvars, nclients, histvars, ulogvars,
                   gc>>

\* Lines 423-433: the entry is free, look at the page.
AdvancePostPage(t) ==
    /\ pc[t] = "v_postpage"
    /\ LET l == loc[t]
           po == offsetAndSealed(pOffset[l.sh.page])
       IN IF ~po.sealed
             THEN AdvanceReturns(t, l)
             ELSE /\ Goto(t, IF po.offset > l.sh.offset
                                THEN "v_postreread" ELSE "v_postnext", l)
                  /\ UNCHANGED <<ret, deferred>>
    /\ UNCHANGED <<mPages, memvars, ologvars, nclients, histvars, ulogvars,
                   gc>>

\* Line 434, then 449.
AdvancePostReread(t) ==
    /\ pc[t] = "v_postreread"
    /\ AfterPostRead(t, loc[t], ReadEntry(loc[t].cur))
    /\ UNCHANGED <<mPages, memvars, ologvars, nclients, histvars, ulogvars,
                   gc>>

\* Lines 437-442: load the next pointer; without a next page the call ends.
AdvancePostNext(t) ==
    /\ pc[t] = "v_postnext"
    /\ LET l == loc[t]
           next == pNext[l.sh.page]
       IN IF next = NULL
             THEN AdvanceReturns(t, l)
             ELSE /\ Goto(t, "v_postnextread",
                          [l EXCEPT !.sh = [page |-> next, offset |-> 0],
                                    !.cur = [page |-> next, pos |-> 0]])
                  /\ UNCHANGED <<ret, deferred>>
    /\ UNCHANGED <<mPages, memvars, ologvars, nclients, histvars, ulogvars,
                   gc>>

\* Lines 444-445, then 449.
AdvancePostNextRead(t) ==
    /\ pc[t] = "v_postnextread"
    /\ AfterPostRead(t, loc[t], ReadEntry(loc[t].cur))
    /\ UNCHANGED <<mPages, memvars, ologvars, nclients, histvars, ulogvars,
                   gc>>

\* ------------------------------------------------------ OrderedLogImpl::seal
\* Line 265: entry->seal() clears the acquired bit of an entry append returned.
OrderedSealBegin(t, e) ==
    /\ pc[t] = "idle"
    /\ t <= nclients
    /\ e \in held
    /\ held' = held \ {e}
    /\ eSize' = [eSize EXCEPT ![e.page][e.pos] = SealWord(@)]
    /\ sealOrder' = Append(sealOrder, eType[e.page][e.pos])
    /\ Goto(t, "s_check", [loc[t] EXCEPT !.log = "ordered", !.target = e])
    /\ UNCHANGED <<mPages, pOffset, pNext, eType, ologvars, deferred, ret,
                   nclients, nAppends, work, appendOrder, ulogvars, gc>>

\* Lines 268-272: advance the sealed head if it points at the entry.
OrderedSealCheck(t) ==
    /\ pc[t] = "s_check"
    /\ LET l == loc[t]
           sealedHead == mSealedHead
       IN IF EntryAt(sealedHead) # l.target
             THEN Return(t, "sealed")
             ELSE /\ Goto(t, "v_init", [l EXCEPT !.oldSH = sealedHead,
                                                 !.from = "seal"])
                  /\ UNCHANGED <<ret, deferred>>
    /\ UNCHANGED <<mPages, memvars, ologvars, nclients, histvars, ulogvars,
                   gc>>

\* --------------------------------------------------------------- LogIterator
\* The iterator positions from `pos` up to `end`, in chain order: an iterator
\* steps over the entry it is at, and from the end of a page to the start of
\* the next page.
RECURSIVE IterPositions(_, _, _)
IterPositions(pos, end, fuel) ==
    IF pos = end \/ fuel = 0
        THEN <<pos>>
        ELSE LET used == offsetAndSealed(pOffset[pos.page]).offset
                 size == IF HasEntrySpace(pos.offset)
                            THEN ReadEntry(EntryAt(pos)).size ELSE 0
             IN IF pos.offset < used /\ size # 0
                   THEN <<pos>> \o IterPositions(
                            [pos EXCEPT !.offset = @ + entrySizeFromSize(size)],
                            end, fuel - 1)
                   ELSE IF pNext[pos.page] # NULL
                           THEN <<pos>> \o IterPositions(
                                    [page |-> pNext[pos.page], offset |-> 0],
                                    end, fuel - 1)
                           ELSE <<pos>>

IterFuel == NumPages * (Cardinality(Slots) + 1)

\* The entries an iteration of [from, end) visits: the type and the payload
\* size each entry header holds.
IterEntries(from, end) ==
    LET ps == IterPositions(from, end, IterFuel)
        at == SelectSeq(ps, LAMBDA q :
                  /\ q # end
                  /\ q.offset < offsetAndSealed(pOffset[q.page]).offset)
    IN [i \in 1..Len(at) |->
           [type |-> eType[at[i].page][at[i].offset],
            size |-> ReadEntry(EntryAt(at[i])).size]]

SeqRange(sq) == {sq[i] : i \in 1..Len(sq)}

\* ----------------------------------------------- OrderedLogImpl::truncateLog
\* The caller reads the tail and picks the new tail among the positions an
\* iteration from the tail to the sealed head passes.
OrderedTruncateBegin(t, newTail) ==
    /\ pc[t] = "idle"
    /\ t <= nclients
    /\ work + WorkOfTruncate <= MaxWork
    /\ newTail \in SeqRange(IterPositions(mTail, mSealedHead, IterFuel))
    /\ work' = work + WorkOfTruncate
    /\ Goto(t, "t_cas", [loc[t] EXCEPT !.log = "ordered", !.told = mTail,
                                       !.tnew = newTail])
    /\ UNCHANGED <<mPages, memvars, ologvars, deferred, ret, nclients,
                   nAppends, held, appendOrder, sealOrder, ulogvars, gc>>

\* The CAS of line 277 on mTail.
TruncateCasBlind(current, expected, new) == new

TruncateCas(current, expected, new) ==
    IF current = expected THEN new ELSE current

\* BaseLogImpl::freePage hands the closure to the reclamation primitive: it
\* runs once every thread that was inside an operation has left it.
DeferFreePage(t, begin, end) ==
    [id |-> work, begin |-> begin, end |-> end,
     grace |-> {u \in Threads \ {t} : pc[u] # "idle"}]

\* Lines 276-285.
OrderedTruncateLog(t) ==
    /\ pc[t] = "t_cas"
    /\ LET l == loc[t]
       IN /\ mTail' = TruncateCas(mTail, l.told, l.tnew)
          /\ IF mTail # l.told
                THEN Return(t, "false")
                ELSE ReturnWith(t, "true",
                                IF l.told.page # l.tnew.page
                                   THEN deferred \cup
                                        {DeferFreePage(t, l.told.page,
                                                       l.tnew.page)}
                                   ELSE deferred)
    /\ UNCHANGED <<mPages, memvars, mHead, mSealedHead, nclients, histvars,
                   ulogvars, gc>>

\* The walk of the closure when it stops only after freeing `end`.
RECURSIVE FreePageWalkInclusive(_, _, _)
FreePageWalkInclusive(page, end, fuel) ==
    IF page = NULL \/ fuel = 0
        THEN <<>>
        ELSE IF page = end
                THEN <<page>>
                ELSE <<page>> \o FreePageWalkInclusive(pNext[page], end,
                                                       fuel - 1)

\* The pages the closure of BaseLogImpl::freePage frees: from begin along the
\* next pointers up to (excluding) end.
RECURSIVE FreePageWalk(_, _, _)
FreePageWalk(page, end, fuel) ==
    IF page = end \/ page = NULL \/ fuel = 0
        THEN <<>>
        ELSE <<page>> \o FreePageWalk(pNext[page], end, fuel - 1)

RECURSIVE PushAll(_, _)
PushAll(stack, pages) ==
    IF pages = <<>> THEN stack
    ELSE PushAll(PageManagerFree(stack, Head(pages)), Tail(pages))

\* Lines 116-123: the deferred closure runs after its grace period.
FreePageRun(c) ==
    /\ c \in deferred
    /\ c.grace = {}
    /\ LET pages == FreePageWalk(c.begin, c.end, Cardinality(DOMAIN pNext))
           freed == SeqRange(pages)
       IN /\ mPages' = PushAll(mPages, pages)
          /\ pOffset' = [p \in DOMAIN pOffset |->
                            IF p \in freed THEN 0 ELSE pOffset[p]]
          /\ pNext' = [p \in DOMAIN pNext |->
                          IF p \in freed THEN NULL ELSE pNext[p]]
          /\ eSize' = [p \in DOMAIN eSize |->
                          IF p \in freed THEN ZeroSlots ELSE eSize[p]]
          /\ eType' = [p \in DOMAIN eType |->
                          IF p \in freed THEN ZeroSlots ELSE eType[p]]
    /\ deferred' = deferred \ {c}
    /\ UNCHANGED <<ologvars, pc, loc, ret, nclients, histvars, ulogvars, gc>>

\* ---------------------------------------------------------- specifications
NoGc == [phase |-> "none"]

ThreadInit ==
    /\ pc = [t \in Threads |-> "idle"]
    /\ loc = [t \in Threads |-> IdleLoc]
    /\ ret = NoRet
    /\ nclients \in 1..NumThreads
    /\ deferred = {}
    /\ nAppends = 0
    /\ work = 0
    /\ held = {}
    /\ appendOrder = <<>>
    /\ sealOrder = <<>>

\* OrderedLogImpl::OrderedLogImpl (lines 251-262) over a fresh PageManager.
Init ==
    /\ ThreadInit
    /\ \E arena \in 1..NumPages : mPages = [i \in 1..(arena - 1) |-> i + 1]
    /\ pOffset = [p \in Pages |-> IF p = 1 THEN 1 ELSE 0]
    /\ pNext = [p \in Pages |-> NULL]
    /\ eSize = [p \in Pages |-> ZeroSlots]
    /\ eType = [p \in Pages |-> ZeroSlots]
    /\ mHead = 1
    /\ mSealedHead = [page |-> 1, offset |-> 0]
    /\ mTail = [page |-> 1, offset |-> 0]
    /\ uHead = NoHead
    /\ uTail = NULL
    /\ uPages = 0
    /\ uSpliced = {}
    /\ gc = NoGc

AllPositions == [page : Pages, offset : 0..MAX_ENTRY_SIZE]

Next ==
    \/ \E t \in Threads, size \in PayloadSizes : OrderedAppendBegin(t, size)
    \/ \E t \in Threads : LogPageLoad(t)
    \/ \E t \in Threads : LogPageAcquire(t)
    \/ \E t \in Threads : LogPagePublish(t)
    \/ \E t \in Threads : CreatePageNext(t)
    \/ \E t \in Threads : CreatePageAdvanceHead(t)
    \/ \E t \in Threads : CreatePageSeal(t)
    \/ \E t \in Threads : CreatePageAcquire(t)
    \/ \E t \in Threads : CreatePageLink(t)
    \/ \E t \in Threads : CreatePageSetHead(t)
    \/ \E t \in Threads : CreatePageSealedHead(t)
    \/ \E t \in Threads : AdvanceInit(t)
    \/ \E t \in Threads : AdvanceLoop(t)
    \/ \E t \in Threads : AdvanceReread(t)
    \/ \E t \in Threads : AdvanceNext(t)
    \/ \E t \in Threads : AdvanceNextRead(t)
    \/ \E t \in Threads : AdvancePublish(t)
    \/ \E t \in Threads : AdvancePost(t)
    \/ \E t \in Threads : AdvancePostPage(t)
    \/ \E t \in Threads : AdvancePostReread(t)
    \/ \E t \in Threads : AdvancePostNext(t)
    \/ \E t \in Threads : AdvancePostNextRead(t)
    \/ \E t \in Threads, e \in held : OrderedSealBegin(t, e)
    \/ \E t \in Threads : OrderedSealCheck(t)
    \/ \E t \in Threads, newTail \in AllPositions :
           OrderedTruncateBegin(t, newTail)
    \/ \E t \in Threads : OrderedTruncateLog(t)
    \/ \E c \in deferred : FreePageRun(c)

Spec == Init /\ [][Next]_vars

\* ---------------------------------------------------------- UnorderedLogImpl
\* The work of an appendPage, in blocks: one for the call.
WorkOfAppendPage == LOG_ENTRY_SIZE \div 16

\* The lengths of the sublists a caller hands to appendPage.
SublistLengths == 1..(NumPages - 1)

\* Log<UnorderedLogImpl>::append and the load of mHead in
\* UnorderedLogImpl::appendEntry (line 191).
UnorderedAppendBegin(t, size) ==
    /\ pc[t] = "idle"
    /\ t <= nclients
    /\ work + WorkOfAppend(size) <= MaxUnorderedWork
    /\ work' = work + WorkOfAppend(size)
    /\ nAppends' = nAppends + 1
    /\ IF entrySizeFromSize(size) > MAX_ENTRY_SIZE
          THEN AppendFails(t)
          ELSE /\ Goto(t, "p_load", [loc[t] EXCEPT !.log = "unordered",
                                       !.head = uHead.writeHead,
                                       !.headAppend = uHead.appendHead,
                                       !.size = size, !.type = nAppends + 1])
               /\ UNCHANGED <<ret, deferred, held, appendOrder>>
    /\ UNCHANGED <<mPages, memvars, ologvars, nclients, sealOrder, ulogvars,
                   gc>>

\* createPage returns the pair `head` to the loop of
\* UnorderedLogImpl::appendEntry (lines 192-201), which gives up on a null
\* writeHead and tries the new writeHead otherwise.
UnorderedCreatePageReturns(t, l, head) ==
    IF head.writeHead = NULL
        THEN AppendFails(t)
        ELSE /\ Goto(t, "p_load",
                     [IdleLoc EXCEPT !.log = l.log, !.head = head.writeHead,
                                     !.headAppend = head.appendHead,
                                     !.size = l.size, !.type = l.type])
             /\ UNCHANGED <<ret, deferred, held, appendOrder>>

\* Lines 208-211: seal the old write head.
UnorderedCreatePageSeal(t) ==
    /\ pc[t] = "uc_seal"
    /\ LET l == loc[t]
       IN /\ pOffset' = [pOffset EXCEPT ![l.head] = SealWord(@)]
          /\ Goto(t, "uc_acq",
                  [l EXCEPT !.writeHead = l.head,
                            !.uOldHead = [writeHead |-> l.head,
                                          appendHead |-> l.headAppend]])
    /\ UNCHANGED <<mPages, pNext, eSize, eType, ologvars, deferred, ret,
                   nclients, histvars, ulogvars, gc>>

\* Lines 214-225: the new head is the append head; without one, a page is
\* acquired and counted.
UnorderedCreatePageAcquire(t) ==
    /\ pc[t] = "uc_acq"
    /\ LET l == loc[t]
           nPage == PageManagerAlloc
       IN IF l.uOldHead.appendHead # NULL
             THEN /\ Goto(t, "uc_cas",
                          [l EXCEPT !.freeHead = FALSE,
                                    !.nHead = [writeHead |-> l.uOldHead.appendHead,
                                               appendHead |-> NULL]])
                  /\ UNCHANGED <<mPages, pOffset, pNext, uPages, ret, deferred,
                                 held, appendOrder>>
             ELSE IF nPage = NULL
                     THEN /\ UnorderedCreatePageReturns(t, l, NoHead)
                          /\ UNCHANGED <<mPages, pOffset, pNext, uPages>>
                     ELSE /\ AcquirePageMem(nPage)
                          /\ uPages' = uPages + 1
                          /\ Goto(t, "uc_next",
                                  [l EXCEPT !.nHead = [writeHead |-> nPage,
                                                       appendHead |-> NULL]])
                          /\ UNCHANGED <<ret, deferred, held, appendOrder>>
    /\ UNCHANGED <<eSize, eType, ologvars, nclients, nAppends, work,
                   sealOrder, uHead, uTail, uSpliced, gc>>

\* Lines 226-227 left out: the new page's next stays null.
UnorderedCreatePageNextSkipped(t) ==
    /\ pc[t] = "uc_next"
    /\ Goto(t, "uc_cas", [loc[t] EXCEPT !.freeHead = TRUE])
    /\ UNCHANGED <<mPages, memvars, ologvars, deferred, ret, nclients,
                   histvars, ulogvars, gc>>

\* Lines 226-227: the new page's next is the old write head.
UnorderedCreatePageNext(t) ==
    /\ pc[t] = "uc_next"
    /\ LET l == loc[t]
       IN /\ pNext' = [pNext EXCEPT ![l.nHead.writeHead] = l.uOldHead.writeHead]
          /\ Goto(t, "uc_cas", [l EXCEPT !.freeHead = TRUE])
    /\ UNCHANGED <<mPages, pOffset, eSize, eType, ologvars, deferred, ret,
                   nclients, histvars, ulogvars, gc>>

\* Lines 230-247: the CAS on the head pair. A lost CAS gives the speculative
\* page back, then repeats when only the append head changed and returns the
\* head it found otherwise.
UnorderedCreatePageCas(t) ==
    /\ pc[t] = "uc_cas"
    /\ LET l == loc[t]
       IN IF uHead = l.uOldHead
             THEN /\ uHead' = l.nHead
                  /\ UnorderedCreatePageReturns(t, l, l.nHead)
                  /\ UNCHANGED <<mPages, pOffset, pNext, uPages>>
             ELSE /\ UNCHANGED uHead
                  /\ IF l.freeHead
                        THEN /\ uPages' = uPages - 1
                             /\ FreeEmptyPageNow(l.nHead.writeHead)
                        ELSE UNCHANGED <<mPages, pOffset, pNext, uPages>>
                  /\ IF uHead.writeHead = l.writeHead
                        THEN /\ Goto(t, "uc_acq", [l EXCEPT !.uOldHead = uHead])
                             /\ UNCHANGED <<ret, deferred, held, appendOrder>>
                        ELSE UnorderedCreatePageReturns(t, l, uHead)
    /\ UNCHANGED <<eSize, eType, ologvars, nclients, nAppends, work,
                   sealOrder, uTail, uSpliced, gc>>

\* The pages of the sublist from p to q along the next pointers.
RECURSIVE SublistFrom(_, _, _)
SublistFrom(p, q, fuel) ==
    IF p = NULL \/ fuel = 0 THEN {}
    ELSE IF p = q THEN {q}
    ELSE {p} \cup SublistFrom(pNext[p], q, fuel - 1)

\* The sublist of n pages the caller of appendPage has built: pages taken
\* from the PageManager, each linked to the one taken after it.
SublistPages(n) == [i \in 1..n |-> mPages[i]]

\* UnorderedLogImpl::appendPage, lines 141-147: the caller's sublist, the load
\* of the head pair, the count of the sublist's pages.
AppendPageBegin(t, n) ==
    /\ pc[t] = "idle"
    /\ t <= nclients
    /\ work + WorkOfAppendPage <= MaxUnorderedWork
    /\ n <= Len(mPages)
    /\ LET sub == SublistPages(n)
       IN /\ mPages' = SubSeq(mPages, n + 1, Len(mPages))
          /\ pOffset' = [p \in DOMAIN pOffset |->
                            IF p \in SeqRange(sub) THEN 1 ELSE pOffset[p]]
          /\ pNext' = [p \in DOMAIN pNext |->
                          IF \E i \in 1..(n - 1) : sub[i] = p
                             THEN sub[(CHOOSE i \in 1..(n - 1) : sub[i] = p) + 1]
                             ELSE IF p = sub[n] THEN NULL ELSE pNext[p]]
          /\ uPages' = uPages + n
          /\ Goto(t, "ap_next", [loc[t] EXCEPT !.log = "unordered",
                                   !.begin = sub[1], !.end = sub[n],
                                   !.uOldHead = uHead])
    /\ work' = work + WorkOfAppendPage
    /\ UNCHANGED <<eSize, eType, ologvars, deferred, ret, nclients, nAppends,
                   held, appendOrder, sealOrder, uHead, uTail, uSpliced, gc>>

\* Lines 150-152 with the sublist's end always pointed at the write head.
AppendPageNextToWriteHead(t) ==
    /\ pc[t] = "ap_next"
    /\ LET l == loc[t]
       IN /\ pNext' = [pNext EXCEPT ![l.end] = l.uOldHead.writeHead]
          /\ Goto(t, "ap_seal", l)
    /\ UNCHANGED <<mPages, pOffset, eSize, eType, ologvars, deferred, ret,
                   nclients, histvars, ulogvars, gc>>

\* Lines 150-152: the sublist's end points at the append head, or at the
\* write head when no page waits to be appended.
AppendPageNext(t) ==
    /\ pc[t] = "ap_next"
    /\ LET l == loc[t]
           next == IF l.uOldHead.appendHead # NULL
                      THEN l.uOldHead.appendHead
                      ELSE l.uOldHead.writeHead
       IN /\ pNext' = [pNext EXCEPT ![l.end] = next]
          /\ Goto(t, "ap_seal", l)
    /\ UNCHANGED <<mPages, pOffset, eSize, eType, ologvars, deferred, ret,
                   nclients, histvars, ulogvars, gc>>

\* Lines 154-157 left out: the old append head is not sealed.
AppendPageSealSkipped(t) ==
    /\ pc[t] = "ap_seal"
    /\ Goto(t, "ap_cas", loc[t])
    /\ UNCHANGED <<mPages, memvars, ologvars, deferred, ret, nclients,
                   histvars, ulogvars, gc>>

\* Lines 154-157: seal the old append head.
AppendPageSeal(t) ==
    /\ pc[t] = "ap_seal"
    /\ LET l == loc[t]
       IN pOffset' = IF l.uOldHead.appendHead # NULL
                        THEN [pOffset EXCEPT ![l.uOldHead.appendHead] = SealWord(@)]
                        ELSE pOffset
    /\ Goto(t, "ap_cas", loc[t])
    /\ UNCHANGED <<mPages, pNext, eSize, eType, ologvars, deferred, ret,
                   nclients, histvars, ulogvars, gc>>

\* Lines 159-163: the CAS on the head pair; a lost CAS repeats the loop with
\* the head it found.
AppendPageCas(t) ==
    /\ pc[t] = "ap_cas"
    /\ LET l == loc[t]
       IN IF uHead = l.uOldHead
             THEN /\ uHead' = [writeHead |-> l.uOldHead.writeHead,
                               appendHead |-> l.begin]
                  /\ uSpliced' = SublistFrom(l.begin, l.end, NumUnorderedPages)
                  /\ Return(t, "void")
             ELSE /\ UNCHANGED <<uHead, uSpliced, ret, deferred>>
                  /\ Goto(t, "ap_next", [l EXCEPT !.uOldHead = uHead])
    /\ UNCHANGED <<mPages, memvars, ologvars, nclients, histvars, uTail,
                   uPages, gc>>

\* UnorderedLogImpl::UnorderedLogImpl (lines 126-138) over a fresh
\* PageManager.
InitUnordered ==
    /\ ThreadInit
    /\ \E arena \in 1..NumUnorderedPages : mPages = [i \in 1..(arena - 1) |-> i + 1]
    /\ pOffset = [p \in UnorderedPages |-> IF p = 1 THEN 1 ELSE 0]
    /\ pNext = [p \in UnorderedPages |-> NULL]
    /\ eSize = [p \in UnorderedPages |-> ZeroSlots]
    /\ eType = [p \in UnorderedPages |-> ZeroSlots]
    /\ mHead = NULL
    /\ mSealedHead = NoPos
    /\ mTail = NoPos
    /\ uHead = [writeHead |-> 1, appendHead |-> NULL]
    /\ uTail = 1
    /\ uPages = 1
    /\ uSpliced = {}
    /\ gc = NoGc

NextUnordered ==
    \/ \E t \in Threads, size \in PayloadSizes : UnorderedAppendBegin(t, size)
    \/ \E t \in Threads : LogPageLoad(t)
    \/ \E t \in Threads : LogPageAcquire(t)
    \/ \E t \in Threads : LogPagePublish(t)
    \/ \E t \in Threads : UnorderedCreatePageSeal(t)
    \/ \E t \in Threads : UnorderedCreatePageAcquire(t)
    \/ \E t \in Threads : UnorderedCreatePageNext(t)
    \/ \E t \in Threads : UnorderedCreatePageCas(t)
    \/ \E t \in Threads, n \in SublistLengths : AppendPageBegin(t, n)
    \/ \E t \in Threads : AppendPageNext(t)
    \/ \E t \in Threads : AppendPageSeal(t)
    \/ \E t \in Threads : AppendPageCas(t)

SpecUnordered == InitUnordered /\ [][NextUnordered]_vars

\* ------------------------------------------------- RowStorePage: the records
\* A multi-version record: its key and the contiguous range of version
\* numbers oldest..newest it holds (newest < oldest: no version kept, as in
\* the dummy record of fillWithInserts whose one version is a delete).
Keys == 1..NumKeys
Versions == 1..NumVersions
NoLoc == [page |-> NULL, offset |-> 0]
FillPages == 1..NumFillPages
\* The address of the input page, and of a page of an earlier generation.
mData == NumFillPages + 1
OldPage == NumFillPages + 2

Min(a, b) == IF a <= b THEN a ELSE b
Max(a, b) == IF a >= b THEN a ELSE b

VersionCount(rec) == IF rec.newest < rec.oldest THEN 0
                     ELSE rec.newest - rec.oldest + 1

\* CDMRecord::size: the record header and 8 bytes per version.
recSize(rec) == RECORD_HEADER + (8 * VersionCount(rec))

\* The versions compaction keeps: those from lowestActiveVersion on, and
\* always the newest one.
KeptVersions(rec, lowestActiveVersion) ==
    IF rec.newest < rec.oldest THEN 0
    ELSE rec.newest
           - Max(rec.oldest, Min(lowestActiveVersion, rec.newest)) + 1

\* CDMRecord::needsCleaning: a version can be dropped, or the InsertMap holds
\* an insert for the record's key.
needsCleaning(rec, lowestActiveVersion, insertMap) ==
    \/ KeptVersions(rec, lowestActiveVersion) < VersionCount(rec)
    \/ rec.key \in insertMap

\* CDMRecord::copyAndCompact into `remaining` bytes: the bytes written, whether
\* the record could be relocated, and the InsertMap without the consumed key.
copyAndCompact(rec, lowestActiveVersion, insertMap, remaining) ==
    LET n == KeptVersions(rec, lowestActiveVersion)
               + (IF rec.key \in insertMap THEN 1 ELSE 0)
        need == RECORD_HEADER + (8 * n)
    IN IF need > remaining
          THEN [written |-> 0, couldRelocate |-> FALSE,
                insertMap |-> insertMap]
          ELSE [written |-> need, couldRelocate |-> TRUE,
                insertMap |-> insertMap \ {rec.key}]

\* The offset of the i-th record of a page body.
RECURSIVE OffsetOf(_, _)
OffsetOf(recs, i) ==
    IF i <= 1 THEN 8 ELSE OffsetOf(recs, i - 1) + recSize(recs[i - 1])

\* CDMRecord rec(mData + offset)
RecordAt(recs, offset) ==
    recs[CHOOSE i \in 1..Len(recs) : OffsetOf(recs, i) = offset]

\* RowStorePage::constructFillPage: open a fresh fill page unless one is open.
constructFillPage(g) ==
    IF g.mFillPage # NULL
        THEN g
        ELSE [g EXCEPT !.nFill = @ + 1, !.mFillPage = g.nFill + 1,
                       !.mFillOffset = 8]

\* RowStorePage::markCurrentForDeletion
markCurrentForDeletion(g) == [g EXCEPT !.marked = @ + 1]

\* ---------------------------------------------------------- RowStorePage::gc
\* Lines 72-80 with every page reported dirty.
hasToCleanAlways(g) == TRUE

\* Lines 72-80: a resumed call has to clean; a first visit scans the records
\* from mStartOffset for one that needs cleaning.
hasToClean(g) ==
    \/ g.mStartOffset # 8
    \/ \E i \in 1..Len(g.recs) :
          /\ OffsetOf(g.recs, i) >= g.mStartOffset
          /\ needsCleaning(g.recs[i], g.lowestActiveVersion, g.insertMap)

\* Lines 108-110 and 165-167 without the store of the used-byte count.
FinalizeFillPageNoHeader(g) ==
    [g EXCEPT !.result = g.mFillPage, !.mFillPage = NULL]

\* Lines 108-110 and 165-167: write the used-byte count into the fill page's
\* header, return the page and clear mFillPage.
FinalizeFillPage(g) ==
    [g EXCEPT !.fill[g.mFillPage].header = g.mFillOffset,
              !.result = g.mFillPage,
              !.mFillPage = NULL]

\* Lines 96-120: the compaction loop from `offset`.
RECURSIVE CompactLoop(_, _)
CompactLoop(g, offset) ==
    IF offset >= g.mSize
        THEN [g EXCEPT !.done = TRUE, !.result = NULL]
        ELSE LET rec == RecordAt(g.recs, offset)
                 pos == [page |-> g.mFillPage, offset |-> g.mFillOffset]
                 c == copyAndCompact(rec, g.lowestActiveVersion, g.insertMap,
                                     TELL_PAGE_SIZE - g.mFillOffset)
             IN IF ~c.couldRelocate
                   THEN FinalizeFillPage(
                          [g EXCEPT !.mFillOffset = @ + c.written,
                                    !.done = FALSE])
                   ELSE CompactLoop(
                          [g EXCEPT !.mFillOffset = @ + c.written,
                                    !.insertMap = c.insertMap,
                                    !.fill[g.mFillPage].recs =
                                        Append(@, [key |-> rec.key,
                                                   offset |-> g.mFillOffset,
                                                   size |-> c.written]),
                                    !.hashTable[rec.key] = pos,
                                    !.inserts =
                                        Append(@, [key |-> rec.key,
                                                   pos |-> pos,
                                                   relocation |-> TRUE])],
                          offset + recSize(rec))

\* RowStorePage::gc(lowestActiveVersion, insertMap, done, hashTable)
RowStorePageGc(g) ==
    IF ~hasToClean(g)
        THEN [g EXCEPT !.done = TRUE, !.result = mData]
        ELSE LET g1 == IF g.mStartOffset = 8
                          THEN markCurrentForDeletion(g) ELSE g
                 g2 == constructFillPage(g1)
             IN CompactLoop(g2, g2.mStartOffset)

\* The InsertMap is ordered: begin() is its smallest key.
InsertMapBegin(insertMap) ==
    CHOOSE k \in insertMap : \A j \in insertMap : k <= j

\* Line 144 with a lookup that finds nothing.
hashTableGetMisses(g, key) == FALSE

\* Line 144: hashTable.get(key) finds a location for the key.
hashTableGet(g, key) == g.hashTable[key] # NoLoc

\* Lines 138-164: the loop over the InsertMap.
RECURSIVE InsertLoop(_)
InsertLoop(g) ==
    IF g.insertMap = {}
        THEN g
        ELSE LET key == InsertMapBegin(g.insertMap)
             IN IF hashTableGet(g, key)
                   THEN InsertLoop([g EXCEPT !.insertMap = @ \ {key}])
                   ELSE LET dummy == [key |-> key, oldest |-> 1, newest |-> 0]
                            pos == [page |-> g.mFillPage,
                                    offset |-> g.mFillOffset]
                            c == copyAndCompact(dummy, g.lowestActiveVersion,
                                                g.insertMap,
                                                TELL_PAGE_SIZE - g.mFillOffset)
                        IN IF c.couldRelocate
                              THEN InsertLoop(
                                     [g EXCEPT
                                        !.mFillOffset = @ + c.written,
                                        !.fill[g.mFillPage].recs =
                                            Append(@, [key |-> key,
                                                       offset |-> g.mFillOffset,
                                                       size |-> c.written]),
                                        !.hashTable[key] = pos,
                                        !.inserts =
                                            Append(@, [key |-> key,
                                                       pos |-> pos,
                                                       relocation |-> FALSE]),
                                        !.insertMap = c.insertMap \ {key}])
                              ELSE g

\* RowStorePage::fillWithInserts(lowestActiveVersion, insertMap, hashTable)
RowStorePageFillWithInserts(g) ==
    FinalizeFillPage(InsertLoop(constructFillPage(g)))

\* A fill page can be had: one is open or the PageManager has one left.
FillPageAvailable(g) == g.mFillPage # NULL \/ g.nFill < NumFillPages

\* The collector calls gc on the page until it reports done.
GcCall ==
    /\ gc.phase = "gc"
    /\ FillPageAvailable(gc)
    /\ LET g == RowStorePageGc(gc)
       IN gc' = [g EXCEPT !.calls = @ + 1, !.op = "gc",
                          !.phase = IF g.done THEN "inserts" ELSE "gc"]
    /\ UNCHANGED <<mPages, memvars, ologvars, deferred, pc, loc, ret,
                   nclients, histvars, ulogvars>>

\* After the input page is drained the collector folds the remaining inserts,
\* with a new fill page for as long as some are left.
FillWithInsertsCall ==
    /\ gc.phase = "inserts"
    /\ FillPageAvailable(gc)
    /\ LET g == RowStorePageFillWithInserts(gc)
       IN gc' = [g EXCEPT !.calls = @ + 1, !.op = "fillWithInserts",
                          !.given = gc.insertMap,
                          !.phase = IF g.insertMap = {} THEN "end"
                                    ELSE "inserts"]
    /\ UNCHANGED <<mPages, memvars, ologvars, deferred, pc, loc, ret,
                   nclients, histvars, ulogvars>>

\* The collector runs fillWithInserts once more with an InsertMap of the same
\* contents as it gave to the run before.
FillWithInsertsAgain ==
    /\ gc.phase \in {"inserts", "end"}
    /\ gc.op \in {"fillWithInserts", "fillWithInsertsAgain"}
    /\ FillPageAvailable(gc)
    /\ LET g == RowStorePageFillWithInserts(
                    [gc EXCEPT !.insertMap = gc.given])
       IN gc' = [g EXCEPT !.calls = @ + 1, !.op = "fillWithInsertsAgain",
                          !.phase = IF g.insertMap = {} THEN "end"
                                    ELSE "inserts"]
    /\ UNCHANGED <<mPages, memvars, ologvars, deferred, pc, loc, ret,
                   nclients, histvars, ulogvars>>

\* The records a page may hold: distinct keys, within the page size.
PageContents ==
    LET Recs == {r \in [key : Keys, oldest : Versions, newest : Versions] :
                    r.oldest <= r.newest}
        Sqs == UNION {[1..n -> Recs] : n \in 0..MaxRecords}
    IN {sq \in Sqs :
          /\ \A i, j \in 1..Len(sq) : i # j => sq[i].key # sq[j].key
          /\ OffsetOf(sq, Len(sq) + 1) <= TELL_PAGE_SIZE}

\* A fill page as constructFillPage leaves it, and one that an earlier input
\* page has left open with one record in it.
EmptyFill == [header |-> 0, recs |-> <<>>]
UsedFill == [header |-> 0,
             recs |-> <<[key |-> 0, offset |-> 8, size |-> RECORD_HEADER + 8]>>]

\* A RowStorePage over its input page, before the first gc call: the index
\* knows the page's records, and some keys of an earlier generation.
InitGC ==
    /\ pc = [t \in Threads |-> "idle"]
    /\ loc = [t \in Threads |-> IdleLoc]
    /\ ret = NoRet
    /\ nclients = 1
    /\ deferred = {}
    /\ nAppends = 0
    /\ work = 0
    /\ held = {}
    /\ appendOrder = <<>>
    /\ sealOrder = <<>>
    /\ mPages = <<>>
    /\ pOffset = [p \in Pages |-> 0]
    /\ pNext = [p \in Pages |-> NULL]
    /\ eSize = [p \in Pages |-> ZeroSlots]
    /\ eType = [p \in Pages |-> ZeroSlots]
    /\ mHead = NULL
    /\ mSealedHead = NoPos
    /\ mTail = NoPos
    /\ uHead = NoHead
    /\ uTail = NULL
    /\ uPages = 0
    /\ uSpliced = {}
    /\ \E recs \in PageContents, insertMap \in SUBSET Keys,
          indexed \in SUBSET Keys, lowestActiveVersion \in Versions,
          open \in BOOLEAN :
          LET onPage == {recs[i].key : i \in 1..Len(recs)}
          IN /\ indexed \cap onPage = {}
             /\ gc = [phase |-> "gc",
                      recs |-> recs,
                      mSize |-> OffsetOf(recs, Len(recs) + 1),
                      mStartOffset |-> 8,
                      mFillPage |-> IF open THEN 1 ELSE NULL,
                      mFillOffset |-> IF open THEN 8 + RECORD_HEADER + 8
                                      ELSE 0,
                      nFill |-> IF open THEN 1 ELSE 0,
                      fill |-> [f \in FillPages |->
                                   IF open /\ f = 1 THEN UsedFill
                                   ELSE EmptyFill],
                      insertMap |-> insertMap,
                      given |-> {},
                      hashTable |->
                          [k \in Keys |->
                              IF k \in onPage
                                 THEN [page |-> mData,
                                       offset |-> OffsetOf(recs,
                                           CHOOSE i \in 1..Len(recs) :
                                               recs[i].key = k)]
                                 ELSE IF k \in indexed
                                         THEN [page |-> OldPage, offset |-> 8]
                                         ELSE NoLoc],
                      lowestActiveVersion |-> lowestActiveVersion,
                      marked |-> 0,
                      done |-> FALSE,
                      result |-> NULL,
                      inserts |-> <<>>,
                      calls |-> 0,
                      op |-> "none"]

NextGC ==
    \/ GcCall
    \/ FillWithInsertsCall
    \/ FillWithInsertsAgain

SpecGC == InitGC /\ [][NextGC]_vars

\* ------------------------------------------------------- chain order, views
\* Page q is reached from page p along at most `fuel` next pointers of `next`.
RECURSIVE PageReach(_, _, _, _)
PageReach(next, p, q, fuel) ==
    \/ p = q
    \/ /\ fuel > 0
       /\ p # NULL
       /\ next[p] # NULL
       /\ PageReach(next, next[p], q, fuel - 1)

\* Position a is at or before position b in the chain order of `next`.
PosLE(next, a, b) ==
    IF a.page = b.page
        THEN a.offset <= b.offset
        ELSE /\ next[a.page] # NULL
             /\ PageReach(next, next[a.page], b.page, NumPages)

\* The pages from p along the next pointers.
RECURSIVE ChainFrom(_, _)
ChainFrom(p, fuel) ==
    IF p = NULL \/ fuel = 0 THEN {} ELSE {p} \cup ChainFrom(pNext[p], fuel - 1)

Quiescent == \A t \in Threads : pc[t] = "idle"

InitialPos == [page |-> 1, offset |-> 0]

PageUsed(p) == offsetAndSealed(pOffset[p]).offset
PageSealed(p) == offsetAndSealed(pOffset[p]).sealed

IsAcquired(word) == word # 0 /\ word % 2 = 1
IsSealedEntry(word) == word # 0 /\ word % 2 = 0

\* What a reader sees: the entries of an iteration from tail to sealedHead.
Visible == IterEntries(mTail, mSealedHead)

IsPrefix(a, b) == Len(a) <= Len(b) /\ \A i \in 1..Len(a) : a[i] = b[i]

Types(sq) == [i \in 1..Len(sq) |-> sq[i].type]

\* The pages waiting in the reclamation primitive.
DeferredPages ==
    UNION {SeqRange(FreePageWalk(c.begin, c.end, NumPages)) : c \in deferred}

\* ===================================================================== C1
\* From offset o of page p, every entry that starts before `limit` is
\* sealed, up to the sealed end offset of the page.
RECURSIVE SealedUpTo(_, _, _, _)
SealedUpTo(p, o, limit, fuel) ==
    \/ o >= limit
    \/ PageSealed(p) /\ o >= PageUsed(p)
    \/ /\ fuel > 0
       /\ HasEntrySpace(o)
       /\ IsSealedEntry(eSize[p][o])
       /\ SealedUpTo(p, o + entrySizeFromSize(eSize[p][o] \div 2), limit,
                     fuel - 1)

\* C1: every position strictly before sealedHead in chain order holds a
\* sealed entry or lies at or beyond the sealed end offset of its page, and
\* no entry that append returned and that is not yet sealed lies before
\* sealedHead.
C1_SealedHeadSafety ==
    /\ \A p \in ChainFrom(mTail.page, NumPages) :
          IF p = mSealedHead.page
             THEN SealedUpTo(p, 0, mSealedHead.offset, IterFuel)
             ELSE PageReach(pNext, p, mSealedHead.page, NumPages)
                  => SealedUpTo(p, 0, MAX_ENTRY_SIZE + 1, IterFuel)
    /\ \A e \in held :
          LET pos == [page |-> e.page, offset |-> e.pos]
          IN ~(pos # mSealedHead /\ PosLE(pNext, pos, mSealedHead))

\* The sealed head has crossed a page that ended with room to spare, while an
\* entry returned by append is still unsealed.
C1_Witness ==
    /\ mSealedHead.page # mTail.page
    /\ PageUsed(mTail.page) < MAX_ENTRY_SIZE
    /\ held # {}

\* ===================================================================== C2
\* C2: across every step the published sealedHead never moves backwards in
\* chain order: it stays on its page with an offset at least as large, or
\* moves to a page later in the chain.
C2_SealedHeadMonotone ==
    [][PosLE(pNext', mSealedHead, mSealedHead')]_vars

\* The sealed head has moved on to a later page, past entries of its page.
C2_Witness ==
    /\ mSealedHead.page # InitialPos.page
    /\ mSealedHead.offset > 0

C4_NoLostAdvance ==
    Quiescent =>
        LET p == mSealedHead.page
            o == mSealedHead.offset
        IN /\ ~(HasEntrySpace(o) /\ IsSealedEntry(eSize[p][o]))
           /\ ~(PageSealed(p) /\ o >= PageUsed(p) /\ pNext[p] # NULL)

\* ===================================================================== C5
\* C5: when a single client has appended payloads one after the other and
\* sealed each of them, an iteration from tail to sealedHead yields exactly
\* the appended payloads, in the order of the appends, each once with its
\* size and type, and nothing else.
C5_RoundTrip ==
    (nclients = 1 /\ Quiescent /\ held = {} /\ mTail = InitialPos)
        => Visible = appendOrder

\* Payloads of two sizes were appended and sealed, and span two pages.
C5_Witness ==
    /\ nclients = 1 /\ Quiescent /\ held = {} /\ mTail = InitialPos
    /\ Len(appendOrder) >= 2
    /\ \E i, j \in 1..Len(appendOrder) :
          appendOrder[i].size # appendOrder[j].size
    /\ mSealedHead.page # InitialPos.page
    /\ Visible = appendOrder

\* ===================================================================== C6
\* The step in which thread t's truncateLog does its CAS and returns.
TruncateReturns(t) == pc[t] = "t_cas" /\ pc'[t] = "idle"

\* truncateLog returns true exactly if tail equals old at its CAS. On success
\* tail is new and the pages from old's page up to (excluding) new's page are
\* handed to the reclamation primitive, none to the PageManager. On failure
\* tail is unchanged and no page is handed over.
TruncateLinear(t) ==
    TruncateReturns(t) =>
        LET old == loc[t].told
            new == loc[t].tnew
        IN /\ ret' \in {"true", "false"}
           /\ (ret' = "true") <=> (mTail = old)
           /\ mPages' = mPages
           /\ ret' = "true" =>
                 /\ mTail' = new
                 /\ IF old.page = new.page
                       THEN deferred' = Quiesce(t, deferred)
                       ELSE \E c \in deferred' :
                               /\ deferred' = Quiesce(t, deferred) \cup {c}
                               /\ c \notin Quiesce(t, deferred)
                               /\ c.begin = old.page /\ c.end = new.page
                               /\ PageReach(pNext, old.page, new.page, NumPages)
           /\ ret' = "false" =>
                 /\ mTail' = mTail
                 /\ deferred' = Quiesce(t, deferred)

\* A call whose CAS has not run yet, and whose old position the tail has
\* left, never sees the tail come back to it.
TruncateNoReturnToOld(u) ==
    (pc[u] = "t_cas" /\ pc'[u] = "t_cas" /\ mTail # loc[u].told)
        => mTail' # loc[u].told

\* C6 as stated: truncateLog is linear, and of concurrent calls with the same
\* old position exactly one succeeds: once one has succeeded, the CAS of every
\* other one finds the tail different from old.
C6_TruncateOneSucceeds ==
    [][\A t \in Threads :
          /\ TruncateLinear(t)
          /\ TruncateNoReturnToOld(t)
          /\ (TruncateReturns(t) /\ ret' = "true") =>
                \A u \in Threads \ {t} :
                   (pc[u] = "t_cas" /\ loc[u].told = loc[t].told)
                       => mTail' # loc[u].told]_vars

\* C6, amended: truncateLog is linear, and of concurrent calls with the same
\* old position at most one call that moves the tail (new differs from old)
\* succeeds; a call with new equal to old succeeds whenever tail equals old
\* and lets the other calls succeed too.
C6_TruncateLinear ==
    [][\A t \in Threads :
          /\ TruncateLinear(t)
          /\ TruncateNoReturnToOld(t)
          /\ (TruncateReturns(t) /\ ret' = "true"
                /\ loc[t].tnew # loc[t].told) =>
                \A u \in Threads \ {t} :
                   (pc[u] = "t_cas" /\ loc[u].told = loc[t].told)
                       => mTail' # loc[u].told]_vars

\* A truncation has moved the tail while another call, begun with the same
\* old position, has its CAS still ahead.
C6_Witness ==
    \E u \in Threads :
       /\ pc[u] = "t_cas"
       /\ ret = "true"
       /\ mTail # loc[u].told
       /\ loc[u].tnew # loc[u].told

\* ===================================================================== C7
\* C7: tail is at or before sealedHead in chain order, and no page from the
\* tail's page on has been handed to the reclamation primitive or given back
\* to the PageManager.
C7_TailBeforeSealedHead ==
    /\ PosLE(pNext, mTail, mSealedHead)
    /\ ChainFrom(mTail.page, NumPages)
          \cap (SeqRange(mPages) \cup DeferredPages) = {}

\* The log was truncated to its second page and the first page has gone
\* back to the PageManager.
C7_Witness ==
    /\ mTail.page # InitialPos.page
    /\ InitialPos.page \in SeqRange(mPages)

\* ===================================================================== C9
\* C9: every entry's size word only moves free -> acquired -> sealed: an
\* acquired entry keeps its size and type, a sealed entry never changes, for
\* as long as its page is not given back to the PageManager.
C9_EntryLifecycle ==
    [][\A p \in Pages : \A o \in Slots :
          LET w == eSize[p][o]
              w2 == eSize'[p][o]
          IN \/ p \in SeqRange(mPages') \ SeqRange(mPages)
             \/ w2 = w /\ eType'[p][o] = eType[p][o]
             \/ w = 0 /\ IsAcquired(w2)
             \/ IsAcquired(w) /\ w2 = w - 1 /\ eType'[p][o] = eType[p][o]]_vars

\* A page holds a sealed entry followed by an acquired entry.
C9_Witness ==
    \E p \in Pages : \E o1, o2 \in Slots :
       /\ o1 < o2
       /\ IsSealedEntry(eSize[p][o1])
       /\ IsAcquired(eSize[p][o2])

\* ===================================================================== C8
\* C8: when append needs a new page and the PageManager has none, append
\* returns null and the failed createPage leaves no partial state: with no
\* other call in progress, the head and every next pointer are as they were
\* before, and the head page is still open for an append that fits in it.
C8_ExhaustionLeavesNoState ==
    [][\A t \in Threads :
          (/\ pc[t] = "c_acq"
           /\ pc'[t] = "idle"
           /\ \A u \in Threads \ {t} : pc[u] = "idle")
          => /\ ret' = "nullptr"
             /\ mHead' = mHead
             /\ pNext' = pNext
             /\ mPages' = mPages
             /\ \A size \in PayloadSizes :
                   (offsetAndSealed(pOffset'[mHead']).offset
                        + entrySizeFromSize(size) <= MAX_ENTRY_SIZE)
                   => ~offsetAndSealed(pOffset'[mHead']).sealed]_vars

\* ==================================================================== C10
\* The step is a gc call on the page's first visit, and no record of the page
\* needs cleaning.
GcFirstVisitClean ==
    /\ gc.phase = "gc"
    /\ gc'.op = "gc"
    /\ gc'.calls = gc.calls + 1
    /\ gc.mStartOffset = 8
    /\ \A i \in 1..Len(gc.recs) :
          ~needsCleaning(gc.recs[i], gc.lowestActiveVersion, gc.insertMap)

\* C10: a gc call on a page's first visit (mStartOffset = 8), when no record
\* of the page needs cleaning, returns the input page itself with done set,
\* and neither marks the page for deletion, nor constructs or writes a fill
\* page, nor calls hashTable.insert; the page, the InsertMap and the index
\* are as before.
C10_GcNoOp ==
    [][GcFirstVisitClean =>
          /\ gc'.result = mData
          /\ gc'.done
          /\ gc'.marked = gc.marked
          /\ gc'.nFill = gc.nFill
          /\ gc'.fill = gc.fill
          /\ gc'.mFillPage = gc.mFillPage
          /\ gc'.mFillOffset = gc.mFillOffset
          /\ gc'.inserts = gc.inserts
          /\ gc'.hashTable = gc.hashTable
          /\ gc'.insertMap = gc.insertMap
          /\ gc'.recs = gc.recs
          /\ gc'.mSize = gc.mSize]_vars

\* gc has returned the input page of two clean records, with pending inserts
\* for another key and an open fill page left as they were.
C10_Witness ==
    /\ gc.op = "gc"
    /\ gc.calls = 1
    /\ gc.result = mData
    /\ gc.done
    /\ Len(gc.recs) = 2
    /\ gc.marked = 0
    /\ gc.insertMap # {}
    /\ gc.mFillPage # NULL
    /\ gc.inserts = <<>>

\* ==================================================================== C11
\* The hashTable.insert calls gc has made for key k as relocations.
Relocations(k) ==
    Cardinality({i \in 1..Len(gc.inserts) :
                    gc.inserts[i].key = k /\ gc.inserts[i].relocation})

\* The gc calls on the page have ended with done, after cleaning it.
GcDrained == gc.done /\ gc.marked > 0

\* C11: across the gc calls on one page, a call that follows one stopped by
\* a full fill page resumes where that call stopped: no record of the page
\* is copied and reported to hashTable.insert more than once, and when gc
\* reports done every record has been reported exactly once.
C11_GcResumes ==
    /\ \A i \in 1..Len(gc.recs) : Relocations(gc.recs[i].key) <= 1
    /\ GcDrained =>
          \A i \in 1..Len(gc.recs) : Relocations(gc.recs[i].key) = 1

\* ==================================================================== C12
\* C12: repeated gc calls on a page, each with a fill page to be had and
\* each record fitting in an empty fill page, report done after finitely
\* many calls: every call but the first starts on a fresh fill page and so
\* relocates at least one record, hence gc is not still unfinished after one
\* call more than the page has records; and when a cleaned page is reported
\* done, every record of it has been relocated and reported.
C12_GcProgress ==
    /\ gc.phase = "gc" => gc.calls <= Len(gc.recs)
    /\ GcDrained =>
          \A i \in 1..Len(gc.recs) : Relocations(gc.recs[i].key) >= 1

\* ==================================================================== C13
\* The step is a run of fillWithInserts; the InsertMap it is given.
FillRunStep ==
    /\ gc'.calls = gc.calls + 1
    /\ gc'.op \in {"fillWithInserts", "fillWithInsertsAgain"}

FillRunInput ==
    IF gc'.op = "fillWithInsertsAgain" THEN gc.given ELSE gc.insertMap

\* The keys the step reports to hashTable.insert, and writes to a fill page.
InsertedKeys ==
    {gc'.inserts[i].key : i \in (Len(gc.inserts) + 1)..Len(gc'.inserts)}

WrittenKeys ==
    UNION {{gc'.fill[f].recs[i].key :
               i \in (Len(gc.fill[f].recs) + 1)..Len(gc'.fill[f].recs)} :
           f \in FillPages}

\* The run leaves key k alone: nothing written, no insert, location kept.
FillRunSkips(k) ==
    /\ k \notin InsertedKeys
    /\ k \notin WrittenKeys
    /\ gc'.hashTable[k] = gc.hashTable[k]

\* C13 as stated: a run of fillWithInserts removes from the InsertMap every
\* entry whose key the index already finds, writing and inserting nothing
\* for it; and a second run with the same InsertMap contents leaves the
\* index exactly as the first run left it.
C13_FoldingIdempotent ==
    [][FillRunStep =>
          /\ \A k \in FillRunInput :
                gc.hashTable[k] # NoLoc =>
                    k \notin gc'.insertMap /\ FillRunSkips(k)
          /\ gc'.op = "fillWithInsertsAgain" =>
                gc'.hashTable = gc.hashTable]_vars

\* C13, amended: a run of fillWithInserts writes and inserts nothing for an
\* entry whose key the index already finds, and removes it from the
\* InsertMap unless the run has stopped before it, at a smaller key that did
\* not fit in the fill page. A second run with the same InsertMap contents
\* changes no location the index holds, and leaves the index exactly as it
\* was if the first run emptied the InsertMap.
C13_FoldingSkips ==
    [][FillRunStep =>
          /\ \A k \in FillRunInput :
                gc.hashTable[k] # NoLoc =>
                    /\ FillRunSkips(k)
                    /\ k \in gc'.insertMap =>
                          \E j \in gc'.insertMap :
                             j < k /\ gc'.hashTable[j] = NoLoc
          /\ gc'.op = "fillWithInsertsAgain" =>
                /\ \A k \in Keys :
                      gc.hashTable[k] # NoLoc =>
                          gc'.hashTable[k] = gc.hashTable[k]
                /\ gc.insertMap = {} => gc'.hashTable = gc.hashTable]_vars

\* A second run has ended on an InsertMap of which the first run had folded
\* one key and skipped another, known to the index from an earlier phase.
C13_Witness ==
    /\ gc.op = "fillWithInsertsAgain"
    /\ gc.insertMap = {}
    /\ \E k \in gc.given : gc.hashTable[k].page = OldPage
    /\ \E k \in gc.given : \E i \in 1..Len(gc.inserts) :
          gc.inserts[i].key = k /\ ~gc.inserts[i].relocation

\* ==================================================================== C14
RECURSIVE SumSizes(_)
SumSizes(recs) ==
    IF recs = <<>> THEN 0 ELSE Head(recs).size + SumSizes(Tail(recs))

\* The step is a gc or fillWithInserts call that returns a fill page.
ReturnsFillPage ==
    /\ gc'.calls = gc.calls + 1
    /\ gc'.result \in FillPages
    /\ gc'.op = "gc" => ~gc'.done

\* The hashTable.insert calls made so far with a location in fill page f.
InsertsInto(g, f) ==
    {i \in 1..Len(g.inserts) : g.inserts[i].pos.page = f}

\* C14: a fill page returned by gc or by fillWithInserts has, when it is
\* returned, a used-byte count of 8 plus the sizes of the records written
\* into it; the locations reported to hashTable.insert for it are the
\* starts of pairwise disjoint record ranges inside [8, used-byte count);
\* and it is not the open fill page any more.
C14_FillPageFinalized ==
    [][ReturnsFillPage =>
          LET f == gc'.result
              page == gc'.fill[f]
              n == Len(page.recs)
          IN /\ page.header = 8 + SumSizes(page.recs)
             /\ \A i \in 1..n :
                   /\ page.recs[i].offset >= 8
                   /\ page.recs[i].offset + page.recs[i].size <= page.header
             /\ \A i, j \in 1..n :
                   i < j => page.recs[i].offset + page.recs[i].size
                               <= page.recs[j].offset
             /\ \A i \in InsertsInto(gc', f) :
                   \E r \in 1..n :
                      /\ page.recs[r].key = gc'.inserts[i].key
                      /\ page.recs[r].offset = gc'.inserts[i].pos.offset
             /\ \A i, j \in InsertsInto(gc', f) :
                   i # j => gc'.inserts[i].pos # gc'.inserts[j].pos
             /\ gc'.mFillPage = NULL]_vars

\* gc has returned a full fill page that holds two records, one of them
\* relocated by this call.
C14_Witness ==
    /\ gc.op = "gc"
    /\ ~gc.done
    /\ gc.result \in FillPages
    /\ Len(gc.fill[gc.result].recs) = 2
    /\ InsertsInto(gc, gc.result) # {}

\* ==================================================================== C15
\* Thread t takes a round of the acquire loop of LogPage::appendEntry.
AcquireRound(t) ==
    /\ pc[t] = "p_acq"
    /\ pc'[t] # pc[t] \/ loc'[t] # loc[t]

\* The round finds room for its entry at its position.
AcquireHasRoom(t) ==
    loc[t].position + entrySizeFromSize(loc[t].size) <= MAX_ENTRY_SIZE

\* tryAcquire is exclusive: on a free entry the caller wins, the entry takes
\* its size and type; on a taken entry the caller changes nothing and skips
\* the padded size of the entry's owner.
AcquireExclusive(t) ==
    (AcquireRound(t) /\ AcquireHasRoom(t)) =>
        LET p == loc[t].head
            o == loc[t].position
            w == eSize[p][o]
        IN IF w = 0
              THEN /\ eSize'[p][o] = (loc[t].size * 2) + 1
                   /\ eType'[p][o] = loc[t].type
                   /\ pc'[t] = "p_cas"
                   /\ loc'[t].position = o
              ELSE /\ eSize' = eSize /\ eType' = eType
                   /\ pc'[t] = "p_acq"
                   /\ loc'[t].position = o + entrySizeFromSize(w \div 2)

\* append returns to thread t the entry it acquired, which no caller holds.
ReturnsOwnEntry(t) ==
    (pc[t] = "p_cas" /\ pc'[t] = "idle" /\ ret' = "entry") =>
        LET e == [page |-> loc[t].head, pos |-> loc[t].position]
        IN /\ e \notin held
           /\ held' = held \cup {e}
           /\ eType'[e.page][e.pos] = loc[t].type
           /\ eSize'[e.page][e.pos] = (loc[t].size * 2) + 1

\* The entries of page p neither overlap nor leave a gap: each taken slot is
\* at offset 0 or at the end of another taken entry, and no taken entry
\* starts inside another.
EntriesContiguous(p) ==
    \A o \in Slots :
       eSize[p][o] # 0 =>
          /\ o + entrySizeFromSize(eSize[p][o] \div 2) <= MAX_ENTRY_SIZE
          /\ \/ o = 0
             \/ \E o1 \in Slots :
                   /\ o1 < o
                   /\ eSize[p][o1] # 0
                   /\ o1 + entrySizeFromSize(eSize[p][o1] \div 2) = o
          /\ \A o2 \in Slots :
                (o < o2 /\ o2 < o + entrySizeFromSize(eSize[p][o] \div 2))
                    => eSize[p][o2] = 0

\* C15: of the threads that call tryAcquire on one free entry exactly one
\* wins, the others skip the winner's padded size; no two appends return
\* the same entry or overlapping ranges; the taken entries of a page are
\* contiguous from offset 0.
C15_AcquireExclusive ==
    [][/\ \A t \in Threads : AcquireExclusive(t) /\ ReturnsOwnEntry(t)
       /\ \A p \in Pages : EntriesContiguous(p)']_vars

\* A thread has acquired its entry behind the entry of another thread, which
\* it found taken and skipped, and which is still unsealed.
C15_Witness ==
    \E t \in Threads :
       /\ pc[t] = "p_cas"
       /\ loc[t].position > loc[t].offset \div 2
       /\ IsAcquired(eSize[loc[t].head][loc[t].offset \div 2])
       /\ IsAcquired(eSize[loc[t].head][loc[t].position])

\* ==================================================================== C16
\* The entry some thread has acquired and is about to publish.
BeingPublished(p, o) ==
    \E t \in Threads :
       pc[t] = "p_cas" /\ loc[t].head = p /\ loc[t].position = o

\* Thread t leaves the publishing loop of LogPage::appendEntry.
LeavesPublish(t) == pc[t] = "p_cas" /\ pc'[t] # "p_cas"

\* The loop returns the entry only with the page offset at or beyond the
\* entry's end; it returns null, and the caller goes on to createPage, only
\* on a page sealed below the entry's end.
PublishOutcome(t) ==
    LeavesPublish(t) =>
        LET p == loc[t].head
            end == loc[t].position + entrySizeFromSize(loc[t].size)
            after == offsetAndSealed(pOffset'[p])
        IN IF pc'[t] = "idle"
              THEN ret' = "entry" /\ after.offset >= end
              ELSE /\ pc'[t] = CreatePageLabel(loc[t])
                   /\ after.sealed
                   /\ after.offset < end
                   /\ held' = held

\* C16: an append returns its entry only if the page offset has reached the
\* entry's end, and gives the entry up if it finds the page sealed below
\* that end. Hence every entry append has returned (held by its caller, or
\* sealed since) ends at or below its page's offset, and every entry that
\* was acquired and given up starts at or beyond the sealed offset of its
\* page.
C16_SealRace ==
    [][/\ \A t \in Threads : PublishOutcome(t)
       /\ \A p \in Pages : \A o \in Slots :
             LET w == eSize'[p][o]
                 e == [page |-> p, pos |-> o]
                 used == offsetAndSealed(pOffset'[p])
             IN /\ (e \in held' \/ IsSealedEntry(w))
                    => o + entrySizeFromSize(w \div 2) <= used.offset
                /\ (IsAcquired(w) /\ e \notin held' /\ ~BeingPublished(p, o)')
                    => used.sealed /\ o >= used.offset]_vars

\* A page has been sealed below an entry that a thread had acquired: the
\* entry is given up, its thread appends elsewhere or has returned.
C16_Witness ==
    \E p \in Pages : \E o \in Slots :
       /\ IsAcquired(eSize[p][o])
       /\ [page |-> p, pos |-> o] \notin held
       /\ ~BeingPublished(p, o)
       /\ PageSealed(p)
       /\ o >= PageUsed(p)

\* ==================================================================== C17
\* Page p is handed out by the PageManager or given back to it in the step.
ChangesHands(p) ==
    (p \in SeqRange(mPages)) # (p \in SeqRange(mPages'))

\* C17: the offset word of a log page, from the page's acquisition to its
\* return to the PageManager: while the page is unsealed a change either
\* strictly raises the offset, to at most MAX_ENTRY_SIZE, or seals the page
\* at its offset; once the page is sealed the word never changes.
C17_OffsetMonotone ==
    [][\A p \in Pages :
          LET old == offsetAndSealed(pOffset[p])
              new == offsetAndSealed(pOffset'[p])
          IN \/ pOffset'[p] = pOffset[p]
             \/ ChangesHands(p)
             \/ /\ ~old.sealed
                /\ \/ new.sealed /\ new.offset = old.offset
                   \/ /\ ~new.sealed
                      /\ new.offset > old.offset
                      /\ new.offset <= MAX_ENTRY_SIZE]_vars

\* A thread is about to publish its offset on a page that was sealed, with
\* entries in it, after the thread had loaded the page's offset.
C17_Witness ==
    \E t \in Threads :
       /\ pc[t] = "p_cas"
       /\ PageSealed(loc[t].head)
       /\ PageUsed(loc[t].head) > 0
       /\ loc[t].head \notin SeqRange(mPages)

\* ==================================================================== C18
\* Page p is fresh: just acquired, empty and unsealed, linked nowhere and
\* linking nowhere, neither head nor tail nor sealed head.
FreshPage(p) ==
    /\ p # NULL
    /\ p \notin SeqRange(mPages)
    /\ pOffset[p] = 1
    /\ pNext[p] = NULL
    /\ \A q \in Pages : pNext[q] # p
    /\ p # mHead /\ p # mTail.page /\ p # mSealedHead.page

\* The next pointer of a page in use changes at most once, from null to a
\* fresh page.
NextSetOnce(p) ==
    \/ pNext'[p] = pNext[p]
    \/ ChangesHands(p)
    \/ pNext[p] = NULL /\ FreshPage(pNext'[p])

\* No page in use is reached again from its own next pointer.
Acyclic ==
    \A p \in Pages :
       pNext[p] # NULL => ~PageReach(pNext, pNext[p], p, NumPages)

\* mHead stays or moves forward along the next pointers.
HeadForward ==
    \/ mHead' = mHead
    \/ /\ pNext'[mHead] # NULL
       /\ PageReach(pNext', pNext'[mHead], mHead', NumPages)

\* C18: across every step each page's next pointer changes at most once,
\* from null to a freshly acquired page; the chain is acyclic; mHead is a
\* page of the chain that starts at the tail; mHead only moves forward.
C18_ChainLinear ==
    [][/\ \A p \in Pages : NextSetOnce(p)
       /\ Acyclic'
       /\ PageReach(pNext', mTail'.page, mHead', NumPages)
       /\ HeadForward]_vars

\* ==================================================================== C19
\* The pages the log reaches: from head, tail and sealed head along the
\* next pointers.
LogReachable ==
    ChainFrom(mHead, NumPages) \cup ChainFrom(mTail.page, NumPages)
        \cup ChainFrom(mSealedHead.page, NumPages)

\* The pages given back to the PageManager in the step.
GivenBack == SeqRange(mPages') \ SeqRange(mPages)

\* Thread t gives its speculative page back through freeEmptyPageNow.
FreesEmptyPageNow(t) ==
    /\ pc[t] = "c_link"
    /\ pc'[t] # "c_link"
    /\ loc[t].nPage \in GivenBack

UnorderedStart ==
    IF uHead.appendHead # NULL THEN uHead.appendHead ELSE uHead.writeHead

\* The pages reachable from the head pair.
UnorderedReachable == ChainFrom(UnorderedStart, NumUnorderedPages)

\* Thread t returns from appendPage in the step.
AppendPageReturns(t) == pc[t] = "ap_cas" /\ pc'[t] = "idle"

\* Thread t wins the CAS of createPage in the step.
CreatePageInstalls(t) ==
    pc[t] = "uc_cas" /\ pc'[t] # "uc_cas" /\ uHead' # uHead

\* The chain from the head pair runs through the write head down to the tail
\* and ends there; no page is the next of two pages of the chain; no page of
\* the chain is with the PageManager.
UnorderedChainLinear ==
    /\ PageReach(pNext, UnorderedStart, uHead.writeHead, NumUnorderedPages)
    /\ PageReach(pNext, uHead.writeHead, uTail, NumUnorderedPages)
    /\ pNext[uTail] = NULL
    /\ \A p, q \in UnorderedReachable :
          p # q => pNext[p] # pNext[q]
    /\ UnorderedReachable \cap SeqRange(mPages) = {}

\* C20: when appendPage returns, the pages of its sublist are reachable from
\* the head pair; no step takes a page out of the chain; createPage makes the
\* append head the write head when there is one, and otherwise installs a
\* page it has just acquired, whose next is the old write head; the chain
\* stays linear, without a page linked twice and without a cycle.
C20_UnorderedChain ==
    [][/\ UnorderedReachable \subseteq UnorderedReachable'
       /\ \A t \in Threads :
             AppendPageReturns(t) =>
                /\ SublistFrom(loc[t].begin, loc[t].end, NumUnorderedPages)
                      \subseteq UnorderedReachable'
                /\ uHead'.appendHead = loc[t].begin
                /\ uHead'.writeHead = uHead.writeHead
       /\ \A t \in Threads :
             CreatePageInstalls(t) =>
                IF uHead.appendHead # NULL
                   THEN uHead' = [writeHead |-> uHead.appendHead,
                                  appendHead |-> NULL]
                   ELSE /\ uHead'.appendHead = NULL
                        /\ uHead'.writeHead = loc[t].nHead.writeHead
                        /\ loc[t].freeHead
                        /\ uHead'.writeHead \notin UnorderedReachable
                        /\ pNext'[uHead'.writeHead] = uHead.writeHead
       /\ UnorderedChainLinear']_vars

\* appendPage has returned after a createPage installed a fresh write head:
\* the sublist waits as the append head in front of the new write head, which
\* stands in front of the first page.
C20_Witness ==
    /\ Quiescent
    /\ ret = "void"
    /\ uHead.appendHead # NULL
    /\ uHead.writeHead # 1
    /\ pNext[uHead.writeHead] = 1
    /\ UnorderedReachable = Pages

\* ==================================================================== C21
\* A record of the page needs cleaning under the InsertMap of the state.
PageNeedsCleaning ==
    \E i \in 1..Len(gc.recs) :
        needsCleaning(gc.recs[i], gc.lowestActiveVersion, gc.insertMap)

\* The step calls markCurrentForDeletion.
MarksPage == gc'.marked # gc.marked

\* The step is a call of gc.
GcStep == gc.phase = "gc" /\ gc'.calls = gc.calls + 1

\* C21: over all the gc calls on a page markCurrentForDeletion is called at
\* most once; it is called by the first gc call when that call finds a record
\* that needs cleaning, by no later call, and never by a call that finds no
\* record needing cleaning.
C21_MarkedOnce ==
    [][/\ gc'.marked <= 1
       /\ MarksPage => GcStep /\ PageNeedsCleaning
       /\ GcStep /\ gc.calls = 0 /\ PageNeedsCleaning => gc'.marked = 1
       /\ GcStep /\ gc.calls > 0 => ~MarksPage]_vars

\* ==================================================================== C22
\* The hashTable.insert calls the step makes.
NewInserts == (Len(gc.inserts) + 1)..Len(gc'.inserts)

\* copyAndCompact has written a record of key k at location pos of a fill
\* page in the step, inside the page.
WrittenAt(k, pos) ==
    /\ pos.page \in FillPages
    /\ \E j \in (Len(gc.fill[pos.page].recs) + 1)..Len(gc'.fill[pos.page].recs) :
          LET r == gc'.fill[pos.page].recs[j]
          IN /\ r.key = k
             /\ r.offset = pos.offset
             /\ r.offset + r.size <= TELL_PAGE_SIZE

\* The bytes a folded insert takes in a fill page.
FoldedInsertSize == copyAndCompact([key |-> 0, oldest |-> 1, newest |-> 0],
                                   1, {0}, TELL_PAGE_SIZE).written

\* C22: every hashTable.insert of a gc call is a relocation, for a record of
\* the page that copyAndCompact has written at the reported location; every
\* hashTable.insert of a fillWithInserts run is a plain insert, for a key of
\* the InsertMap that the index did not find and that copyAndCompact has
\* written at the reported location, and the key is gone from the InsertMap
\* afterwards; a run that leaves keys in the InsertMap has stopped at the
\* smallest of them, which the index does not find and which did not fit in
\* the returned fill page, and has left that key and all larger ones.
C22_IndexReporting ==
    [][/\ GcStep =>
             \A i \in NewInserts :
                LET e == gc'.inserts[i]
                IN /\ e.relocation
                   /\ \E r \in 1..Len(gc.recs) : gc.recs[r].key = e.key
                   /\ WrittenAt(e.key, e.pos)
       /\ FillRunStep =>
             /\ \A i \in NewInserts :
                   LET e == gc'.inserts[i]
                   IN /\ ~e.relocation
                      /\ e.key \in FillRunInput
                      /\ gc.hashTable[e.key] = NoLoc
                      /\ WrittenAt(e.key, e.pos)
                      /\ e.key \notin gc'.insertMap
             /\ gc'.insertMap # {} =>
                   LET stop == InsertMapBegin(gc'.insertMap)
                   IN /\ gc.hashTable[stop] = NoLoc
                      /\ stop \notin InsertedKeys
                      /\ gc'.fill[gc'.result].header + FoldedInsertSize
                            > TELL_PAGE_SIZE
                      /\ gc'.insertMap = {k \in FillRunInput : k >= stop}]_vars

\* A run of fillWithInserts has stopped at a key that did not fit, after a
\* plain insert of its own and a relocation by gc.
C22_Witness ==
    /\ gc.op = "fillWithInserts"
    /\ gc.insertMap # {}
    /\ \E i \in 1..Len(gc.inserts) : gc.inserts[i].relocation
    /\ \E i \in 1..Len(gc.inserts) :
          /\ ~gc.inserts[i].relocation
          /\ gc.inserts[i].pos.page = gc.result

\* ==================================================================== C23
\* Every call has returned, every entry append returned has been sealed,
\* nothing was truncated and the PageManager still has a page: no append has
\* failed for want of a page, and no step but a new call can happen.
AllSealedAtRest ==
    /\ Quiescent
    /\ held = {}
    /\ appendOrder # <<>>
    /\ mTail = InitialPos
    /\ deferred = {}
    /\ mPages # <<>>

\* The sealed head is past entry e of appendOrder: an iteration from the tail
\* to the sealed head yields it.
SealedHeadPast(e) == \E j \in 1..Len(Visible) : Visible[j] = e

\* C23: once every call has returned and every returned entry is sealed, the
\* sealed head has passed the last returned entry, and so every returned
\* entry; neither an entry abandoned on a sealed page nor the order of the
\* steps of concurrent appends and seals keeps it back.
C23_SealedHeadArrives ==
    AllSealedAtRest =>
        \A i \in 1..Len(appendOrder) : SealedHeadPast(appendOrder[i])

\* ==================================================================== C24
\* C24 as stated: every page reachable from the head pair is sealed, unless
\* it is the write head or a page of the sublist spliced in most recently.
C24_SealedBehindHeads ==
    \A p \in UnorderedReachable :
        (p # uHead.writeHead /\ p \notin uSpliced) => PageSealed(p)

\* Thread t's append returns an entry in the step.
UnorderedAppendReturns(t) ==
    /\ loc[t].log = "unordered"
    /\ pc[t] \in {"p_acq", "p_cas"}
    /\ pc'[t] = "idle"
    /\ ret' = "entry"

\* Page p is sealed after the step.
SealedAfter(p) == offsetAndSealed(pOffset'[p]).sealed

\* Thread t's appendPage wins its CAS in the step.
AppendPageSplices(t) == pc[t] = "ap_cas" /\ pc'[t] = "idle"

\* C24, amended: a page is sealed when it stops being the write head; an
\* append head is sealed when a newer sublist is linked in front of it; a
\* sealed page of the chain stays sealed; and an append returns an entry only
\* on a page that is the write head, or was and is sealed. The pages of a
\* spliced sublist behind its first page are left as the caller built them.
C24_HeadsSealed ==
    [][/\ uHead'.writeHead # uHead.writeHead => SealedAfter(uHead.writeHead)
       /\ \A t \in Threads :
             (AppendPageSplices(t) /\ uHead.appendHead # NULL) =>
                /\ SealedAfter(uHead.appendHead)
                /\ pNext'[loc[t].end] = uHead.appendHead
       /\ \A p \in UnorderedReachable : PageSealed(p) => SealedAfter(p)
       /\ \A t \in Threads :
             UnorderedAppendReturns(t) =>
                \/ loc[t].head = uHead.writeHead
                \/ /\ SealedAfter(loc[t].head)
                   /\ PageReach(pNext, uHead.writeHead, loc[t].head,
                                NumUnorderedPages)]_vars

\* A newer sublist stands in front of an older append head, which is sealed,
\* and a createPage has put a fresh page in front of the first write head,
\* which is sealed.
C24_Witness ==
    /\ Quiescent
    /\ uHead.appendHead # NULL
    /\ pNext[uHead.appendHead] \notin {NULL, uHead.writeHead}
    /\ PageSealed(pNext[uHead.appendHead])
    /\ uHead.writeHead # 1
    /\ PageSealed(1)
    /\ held # {}

\* ================================================= UnorderedLogImpl::erase
\* The work of an erase, in blocks: one for the call.
WorkOfErase == LOG_ENTRY_SIZE \div 16

\* The pages strictly between begin and end: those after begin along the next
\* pointers, up to (excluding) end.
EraseSegment(begin, end) ==
    SeqRange(FreePageWalk(pNext[begin], end, NumUnorderedPages))

\* The arguments a caller hands to erase: begin is a page of the chain, end
\* is begin, a page behind it, or null; the pages between them hold neither
\* head; one thread at a time erases.
EraseArguments(begin, end) ==
    /\ begin \in UnorderedReachable
    /\ end \in ChainFrom(begin, NumUnorderedPages) \cup {NULL}
    /\ EraseSegment(begin, end) \cap {uHead.writeHead, uHead.appendHead} = {}
    /\ \A u \in Threads : pc[u] \notin {"e_xchg", "e_free"}

\* UnorderedLogImpl::erase, lines 167-176: nothing to do for begin = end; a
\* null end makes begin the tail.
UnorderedEraseBegin(t, begin, end) ==
    /\ pc[t] = "idle"
    /\ t <= nclients
    /\ work + WorkOfErase <= MaxEraseWork
    /\ EraseArguments(begin, end)
    /\ work' = work + WorkOfErase
    /\ IF begin = end
          THEN /\ Return(t, "void")
               /\ UNCHANGED uTail
          ELSE /\ uTail' = IF end = NULL THEN begin ELSE uTail
               /\ Goto(t, "e_xchg", [loc[t] EXCEPT !.log = "unordered",
                                       !.begin = begin, !.end = end])
               /\ UNCHANGED <<ret, deferred>>
    /\ UNCHANGED <<mPages, memvars, ologvars, nclients, nAppends, held,
                   appendOrder, sealOrder, uHead, uPages, uSpliced, gc>>

\* Lines 178-179: the exchange of begin's next with end.
UnorderedEraseExchange(t) ==
    /\ pc[t] = "e_xchg"
    /\ LET l == loc[t]
           next == pNext[l.begin]
       IN /\ pNext' = [pNext EXCEPT ![l.begin] = l.end]
          /\ IF next = l.end
                THEN Return(t, "void")
                ELSE /\ Goto(t, "e_free", [l EXCEPT !.next = next])
                     /\ UNCHANGED <<ret, deferred>>
    /\ UNCHANGED <<mPages, pOffset, eSize, eType, ologvars, nclients,
                   histvars, ulogvars, gc>>

\* Lines 181-187 without the fetch_sub of line 185.
UnorderedEraseFreeUncounted(t) ==
    /\ pc[t] = "e_free"
    /\ LET l == loc[t]
       IN ReturnWith(t, "void", deferred \cup {DeferFreePage(t, l.next, l.end)})
    /\ UNCHANGED <<mPages, memvars, ologvars, nclients, histvars, ulogvars,
                   gc>>

\* Lines 181-187: count the detached pages, take them off the counter, hand
\* them to the reclamation primitive.
UnorderedEraseFree(t) ==
    /\ pc[t] = "e_free"
    /\ LET l == loc[t]
           pages == Len(FreePageWalk(l.next, l.end, NumUnorderedPages))
       IN /\ uPages' = uPages - pages
          /\ ReturnWith(t, "void",
                        deferred \cup {DeferFreePage(t, l.next, l.end)})
    /\ UNCHANGED <<mPages, memvars, ologvars, nclients, histvars, uHead,
                   uTail, uSpliced, gc>>

\* The steps of SpecUnordered, within the budget of this specification, and
\* those of erase and of the reclamation primitive.
NextUnorderedErase ==
    \/ \E t \in Threads, size \in PayloadSizes :
           UnorderedAppendBegin(t, size) /\ work' <= MaxEraseWork
    \/ \E t \in Threads : LogPageLoad(t)
    \/ \E t \in Threads : LogPageAcquire(t)
    \/ \E t \in Threads : LogPagePublish(t)
    \/ \E t \in Threads : UnorderedCreatePageSeal(t)
    \/ \E t \in Threads : UnorderedCreatePageAcquire(t)
    \/ \E t \in Threads : UnorderedCreatePageNext(t)
    \/ \E t \in Threads : UnorderedCreatePageCas(t)
    \/ \E t \in Threads, n \in SublistLengths :
           AppendPageBegin(t, n) /\ work' <= MaxEraseWork
    \/ \E t \in Threads : AppendPageNext(t)
    \/ \E t \in Threads : AppendPageSeal(t)
    \/ \E t \in Threads : AppendPageCas(t)
    \/ \E t \in Threads, begin \in UnorderedPages,
          end \in UnorderedPages \cup {NULL} :
           UnorderedEraseBegin(t, begin, end)
    \/ \E t \in Threads : UnorderedEraseExchange(t)
    \/ \E t \in Threads : UnorderedEraseFree(t)
    \/ \E c \in deferred : FreePageRun(c)

SpecUnorderedErase == InitUnordered /\ [][NextUnorderedErase]_vars

\* ==================================================================== C25
\* No createPage, appendPage or erase call is in progress.
NoPageCallInProgress ==
    \A t \in Threads :
        pc[t] \notin {"uc_seal", "uc_acq", "uc_next", "uc_cas",
                      "ap_next", "ap_seal", "ap_cas", "e_xchg", "e_free"}

\* The pages thread t's call has counted and not yet put in the chain, or has
\* taken out of the chain and not yet taken off the counter.
PendingPages(t) ==
    IF pc[t] = "uc_next" \/ (pc[t] = "uc_cas" /\ loc[t].freeHead)
        THEN 1
    ELSE IF pc[t] \in {"ap_next", "ap_seal", "ap_cas"}
        THEN Cardinality(SublistFrom(loc[t].begin, loc[t].end,
                                     NumUnorderedPages))
    ELSE IF pc[t] = "e_free"
        THEN Len(FreePageWalk(loc[t].next, loc[t].end, NumUnorderedPages))
    ELSE 0

RECURSIVE SumPendingPages(_)
SumPendingPages(ts) ==
    IF ts = {} THEN 0
    ELSE LET t == CHOOSE u \in ts : TRUE
         IN PendingPages(t) + SumPendingPages(ts \ {t})

\* The counter is the number of pages of the chain plus the pages of the
\* calls in progress.
PagesCounted ==
    uPages = Cardinality(UnorderedReachable) + SumPendingPages(Threads)

\* With no call in progress, the counter is the number of pages reachable
\* from the head pair.
PagesCountedAtRest ==
    NoPageCallInProgress => uPages = Cardinality(UnorderedReachable)

\* Thread t takes a step of createPage that leaves it without installing a
\* head: the allocation failed, or the CAS was lost.
CreatePageGivesUp(t) ==
    /\ pc[t] \in {"uc_acq", "uc_cas"}
    /\ pc'[t] \notin {"uc_acq", "uc_next", "uc_cas"}
    /\ uHead' = uHead

\* Thread t's CAS in createPage is lost in the step.
CreatePageLosesCas(t) ==
    /\ pc[t] = "uc_cas"
    /\ pc'[t] # "uc_cas"
    /\ uHead # loc[t].uOldHead

\* Thread t enters appendPage in the step.
AppendPageCalled(t) == pc[t] = "idle" /\ pc'[t] = "ap_next"

\* Thread t takes a step of appendPage behind the count of its pages.
AppendPageSteps(t) ==
    pc[t] \in {"ap_next", "ap_seal", "ap_cas"} /\ pc'[t] # pc[t]

\* Thread t's erase detaches its pages in the step.
EraseDetaches(t) == pc[t] = "e_xchg" /\ pc'[t] # "e_xchg"

\* Thread t's erase counts its pages and hands them on in the step.
EraseFrees(t) == pc[t] = "e_free" /\ pc'[t] = "idle"

\* C25: whenever no createPage, appendPage or erase call is in progress, the
\* pages counter is the number of pages reachable from the head pair; a
\* createPage that fails to allocate has not touched the counter, one that
\* loses its CAS takes back the page it counted; appendPage adds the number of
\* pages of its sublist, once; erase takes the pages strictly between begin
\* and end out of the chain and subtracts their number, and these are the
\* pages it hands to deferred reclamation.
C25_PageAccounting ==
    /\ PagesCountedAtRest
    /\ [][/\ PagesCountedAtRest'
          /\ PagesCounted'
          /\ \A t \in Threads :
                /\ CreatePageGivesUp(t) /\ pc[t] = "uc_acq" => uPages' = uPages
                /\ CreatePageLosesCas(t) =>
                      uPages' = uPages - (IF loc[t].freeHead THEN 1 ELSE 0)
                /\ AppendPageCalled(t) =>
                      uPages' = uPages
                         + Cardinality(SublistFrom(loc[t].begin, loc[t].end,
                                                   NumUnorderedPages))'
                /\ AppendPageSteps(t) => uPages' = uPages
                /\ EraseDetaches(t) =>
                      /\ UnorderedReachable \ UnorderedReachable'
                            = EraseSegment(loc[t].begin, loc[t].end)
                      /\ uPages' = uPages
                /\ EraseFrees(t) =>
                      LET seg == SeqRange(FreePageWalk(loc[t].next, loc[t].end,
                                                       NumUnorderedPages))
                      IN /\ uPages' = uPages - Cardinality(seg)
                         /\ seg \cap UnorderedReachable = {}
                         /\ \E c \in deferred' \ deferred :
                               /\ c.begin = loc[t].next
                               /\ c.end = loc[t].end]_vars

\* An erase has taken a page out of the chain behind a sublist that
\* appendPage spliced in and a write head that createPage installed; the
\* counter is the number of pages left.
C25_Witness ==
    /\ Quiescent
    /\ uPages = Cardinality(UnorderedReachable)
    /\ uPages >= 2
    /\ uHead.appendHead # NULL
    /\ uHead.writeHead # 1
    /\ 1 \notin UnorderedReachable
====
